---- MODULE Spec2Model ----
(***************************************************************************)
(* The resilient retrieval/submission client of healthcare-api             *)
(* (lib/api-client.ts with the helpers of lib/utils.ts): fetchPatientsPage,*)
(* fetchAllPatients and submitAssessment, run against a server whose       *)
(* responses are chosen nondeterministically.  One step of the model is    *)
(* the synchronous code between two awaits.                                *)
(*                                                                         *)
(* Spec        a direct call of fetchAllPatients or submitAssessment       *)
(* SpecRoutes  the GET and POST route handlers with the calls they make    *)
(* SpecScoring the scoring functions of lib/risk-scoring.ts on one patient *)
(* SpecAssessment  assessPatientRisk and categorizePatients on a list       *)
(* SpecTwoRuns     two interleaved calls of fetchAllPatients                *)
(* SpecDashboard   startAssessment of the dashboard page                    *)
(***************************************************************************)
EXTENDS Integers, Sequences, FiniteSets, TLC

VARIABLES
    pc,           \* position of the awaited task
    currentPage,  \* fetchAllPatients: currentPage
    totalPages,   \* fetchAllPatients: totalPages
    allPatients,  \* fetchAllPatients: allPatients
    attempt,      \* retry loop: attempt
    lastError,    \* retry loop: lastError
    results,      \* submitAssessment: the results argument
    outcome,      \* what the top-level call returned or threw
    events,       \* progress events handed to onProgress, in order
    inflight,     \* HTTP requests issued and not yet answered
    reqLog,       \* every HTTP request of the run, in order
    lastResponse, \* the latest response of the current call, with the wait it caused
    waits,        \* the backoff waits of the current call, in order
    priorRetryable, \* every response of the current call before the latest was
                  \* a retryable status
    served,       \* what the server sent with each successful page response
    declared,     \* the pagination the server sent with page 1
    faults,       \* failing responses the server has given in this run
    pauses,       \* the inter-page sleeps of the run, in order
    rpc,          \* position of the route handler serving the HTTP request
    env,          \* process.env as the route handler reads it
    request,      \* the HTTP request the route handler received
    httpResponse, \* the NextResponse the route handler returned
    patient,      \* the patient record handed to the scoring functions
    scored,       \* what the scoring function applied last returned
    assessed,     \* the records assessPatientRisk returned, in call order
    cohorts,      \* what categorizePatients returned
    active,       \* the fetchAllPatients run whose step is taken next
    parked,       \* the local variables of the run waiting at its await
    runStatus,    \* dashboard: status
    progressLogs, \* dashboard: progressLogs
    errorState,   \* dashboard: error
    submissionResult \* dashboard: submissionResult

clientVars == <<pc, currentPage, totalPages, allPatients, attempt, lastError, results,
                outcome, events, inflight, reqLog, lastResponse, waits,
                priorRetryable, served, declared, faults, pauses>>
routeVars == <<rpc, env, request, httpResponse>>
scoreVars == <<patient, scored>>
assessVars == <<assessed, cohorts>>
taskVars == <<active, parked>>
dashVars == <<runStatus, progressLogs, errorState, submissionResult>>
uiVars == <<assessVars, taskVars, dashVars>>

vars == <<clientVars, routeVars, scoreVars, uiVars>>

----------------------------------------------------------------------------
(* Bounds of the model *)

MaxPages == 2     \* largest totalPages a response declares
MaxRecs == 1      \* most records in one page
MaxLen == 4       \* longest string given to a scoring function as free text
MaxAssessed == 3  \* most records handed to the analysis step
MaxFaults == 1    \* most failing answers to one of two concurrent runs

(* Constants of the program *)

MAX_RETRIES == 5
BASE_DELAY == 1000

(* variant: the inter-page sleep uses the backoff base *)
RateLimitDelayAsBase == BASE_DELAY

RATE_LIMIT_DELAY == 500

----------------------------------------------------------------------------
(* utils.ts *)

RECURSIVE Pow2(_)
Pow2(n) == IF n <= 0 THEN 1 ELSE 2 * Pow2(n - 1)

(* variant: the delay grows linearly with the attempt *)
getLinearBackoff(a, baseDelay) == baseDelay * (a + 1)

getExponentialBackoff(a, baseDelay) == baseDelay * Pow2(a)

isRetryableError(status) == status = 429 \/ status = 500 \/ status = 503

----------------------------------------------------------------------------
(* Errors *)

NoError == [kind |-> "none", status |-> 0, detail |-> ""]
HttpError(status, detail) == [kind |-> "http", status |-> status, detail |-> detail]
NetworkFailure == [kind |-> "network", status |-> 0, detail |-> "fetch failed"]
JsonSyntaxError == [kind |-> "syntax", status |-> 0, detail |-> "Unexpected token"]
InvalidFormatError ==
    [kind |-> "format", status |-> 0,
     detail |-> "Invalid response format: response is not an object"]
PageExhaustedError ==
    [kind |-> "exhausted", status |-> 0, detail |-> "Failed to fetch page"]
SubmitExhaustedError ==
    [kind |-> "exhausted", status |-> 0, detail |-> "Failed to submit assessment"]

(* throw lastError || new Error(...) *)
ThrownAfterLoop(err, fallback) == IF err = NoError THEN fallback ELSE err

----------------------------------------------------------------------------
(* The server: statuses, page envelopes, submission answers *)

FailStatuses == {429, 500, 503, 404}

StatusText(status) ==
    CASE status = 404 -> "Not Found"
      [] status = 429 -> "Too Many Requests"
      [] status = 500 -> "Internal Server Error"
      [] status = 503 -> "Service Unavailable"
      [] OTHER -> "OK"

ResponseOk(status) == status >= 200 /\ status <= 299

NoPagination == [present |-> FALSE, hasTotalPages |-> FALSE, totalPages |-> 0]
Paginations ==
    {NoPagination, [present |-> TRUE, hasTotalPages |-> FALSE, totalPages |-> 0]}
    \cup {[present |-> TRUE, hasTotalPages |-> TRUE, totalPages |-> t] :
              t \in -1 .. MaxPages}

(* the records of page p: n patients, identified by page and position.  A body
   whose data is not an array (dataIsArray FALSE) still carries a payload. *)
Records(p, n) == [i \in 1 .. n |-> <<p, i>>]

NoBody == [shape |-> "none", dataIsArray |-> FALSE, data |-> <<>>,
           pagination |-> NoPagination]

PageBodies(p) ==
    {[shape |-> s, dataIsArray |-> FALSE, data |-> <<>>, pagination |-> NoPagination] :
        s \in {"notjson", "nonobject"}}
    \cup {[shape |-> "object", dataIsArray |-> FALSE, data |-> Records(p, n),
           pagination |-> pg] : n \in {1}, pg \in Paginations}
    \cup {[shape |-> "object", dataIsArray |-> TRUE, data |-> Records(p, n),
           pagination |-> pg] : n \in 0 .. MaxRecs, pg \in Paginations}

PageResponses(p) ==
    {[rejected |-> TRUE, status |-> 0, body |-> NoBody]}
    \cup {[rejected |-> FALSE, status |-> s, body |-> NoBody] : s \in FailStatuses}
    \cup {[rejected |-> FALSE, status |-> 200, body |-> b] : b \in PageBodies(p)}

(* a page response that ends the call with a result *)
PageSuccess(r) ==
    /\ ~r.rejected
    /\ r.status = 200
    /\ r.body.shape = "object"


(* the answers of POST /submit-assessment *)
ErrorTexts == {"invalid api key", "bad request"}
SubmissionResults == {"PASS", "FAIL"}

SubmitResponses ==
    {[rejected |-> TRUE, status |-> 0, text |-> "", json |-> FALSE, value |-> ""]}
    \cup {[rejected |-> FALSE, status |-> s, text |-> t, json |-> FALSE, value |-> ""] :
              s \in FailStatuses, t \in ErrorTexts}
    \cup {[rejected |-> FALSE, status |-> 200, text |-> "", json |-> FALSE, value |-> ""]}
    \cup {[rejected |-> FALSE, status |-> 200, text |-> "", json |-> TRUE, value |-> v] :
              v \in SubmissionResults}

SubmitSuccess(r) == ~r.rejected /\ r.status = 200 /\ r.json

NoResults ==
    [high_risk_patients |-> <<>>, fever_patients |-> <<>>, data_quality_issues |-> <<>>]
SubmitInputs ==
    {NoResults,
     [high_risk_patients |-> <<"p1", "p2">>, fever_patients |-> <<"p2">>,
      data_quality_issues |-> <<"p2", "p1">>]}

----------------------------------------------------------------------------
(* fetchPatientsPage: what one attempt does with its response *)

(* the error thrown inside the try block; NoError when nothing is thrown *)
PageThrown(r) ==
    IF r.rejected THEN NetworkFailure
    ELSE IF isRetryableError(r.status) THEN NoError
    ELSE IF ~ResponseOk(r.status) THEN HttpError(r.status, StatusText(r.status))
    ELSE IF r.body.shape = "notjson" THEN JsonSyntaxError
    ELSE IF r.body.shape # "object" THEN InvalidFormatError
    ELSE NoError

(* variant: a 429 waits no longer than the other statuses *)
RetryBaseDelayFlat(status) == BASE_DELAY

(* response.status === 429 ? BASE_DELAY * 2 : BASE_DELAY *)
RetryBaseDelay(status) == IF status = 429 THEN BASE_DELAY * 2 ELSE BASE_DELAY

(* what fetchPatientsPage reads of the pagination of a parsed body, as
   text: it looks at data.pagination only when data.data is not an array *)
PaginationRead(body) ==
    IF body.dataIsArray THEN ""
    ELSE IF ~body.pagination.present THEN "undefined"
    ELSE IF ~body.pagination.hasTotalPages THEN "{}"
    ELSE ToString(body.pagination.totalPages)

(* variant: the parsed body is returned without the Array.isArray check *)
PageResultUnchecked(body, page) ==
    [dataIsArray |-> TRUE, data |-> body.data, pagination |-> body.pagination]

(* the PatientsResponse returned for a parsed object body *)
PageResult(body, page) ==
    IF body.dataIsArray
    THEN [dataIsArray |-> TRUE, data |-> body.data, pagination |-> body.pagination]
    ELSE [dataIsArray |-> TRUE, data |-> <<>>,
          pagination |-> IF body.pagination.present
                         THEN body.pagination
                         ELSE [present |-> TRUE, hasTotalPages |-> TRUE,
                               totalPages |-> 1]]

(* variant: the loop test is off by one *)
RetryLoopContinuesInclusive(a) == a <= MAX_RETRIES

(* for (...; attempt < MAX_RETRIES; ...) *)
RetryLoopContinues(a) == a < MAX_RETRIES

(* if (attempt === MAX_RETRIES - 1) break *)
IsLastAttempt(a) == a = MAX_RETRIES - 1

(* what submitAssessment reads of the body of a response: response.text()
   of a failing status that is not retried, response.json() of a success *)
SubmitRead(r) ==
    IF r.rejected \/ isRetryableError(r.status) THEN ""
    ELSE IF ~ResponseOk(r.status) THEN r.text
    ELSE IF r.json THEN r.value
    ELSE ""

(* submitAssessment: the error thrown inside the try block *)
SubmitThrown(r) ==
    IF r.rejected THEN NetworkFailure
    ELSE IF isRetryableError(r.status) THEN NoError
    ELSE IF ~ResponseOk(r.status) THEN HttpError(r.status, r.text)
    ELSE IF ~r.json THEN JsonSyntaxError
    ELSE NoError

----------------------------------------------------------------------------
(* fetchAllPatients: the synchronous pieces between awaits *)

Event(page, tp, count, type, message, err) ==
    [page |-> page, totalPages |-> tp, patientsCount |-> count, type |-> type,
     message |-> message, error |-> err]

(* firstPageData.pagination?.totalPages || 1 *)
TotalPagesOf(pg) ==
    IF pg.present /\ pg.hasTotalPages /\ pg.totalPages # 0 THEN pg.totalPages ELSE 1

(* if (Array.isArray(d.data) && d.data.length > 0) allPatients.push(...d.data) *)
AddPatients(all, pageData) ==
    IF pageData.dataIsArray /\ Len(pageData.data) > 0 THEN all \o pageData.data ELSE all

(* variant: the page loop stops one page early *)
PageLoopContinuesStrict(cp, tp) == cp < tp

(* currentPage <= totalPages *)
PageLoopContinues(cp, tp) == cp <= tp

Pending == [kind |-> "pending", patients |-> <<>>, result |-> "", error |-> NoError]
Returned(patients, result) ==
    [kind |-> "returned", patients |-> patients, result |-> result, error |-> NoError]
Threw(err) == [kind |-> "threw", patients |-> <<>>, result |-> "", error |-> err]

(* variant: the error notification forgets the records fetched so far *)
ErrorEventNoCount(page, tp, all, err) == Event(page, tp, 0, "error", "error", err)

(* the error notification of the catch block *)
ErrorEvent(page, tp, all, err) == Event(page, tp, Len(all), "error", "error", err)

(* variant: the identifier lists are written last to first *)
stringifyReversed(res) ==
    LET arr(a) == <<"[">> \o [i \in 1 .. Len(a) |-> a[Len(a) + 1 - i]] \o <<"]">>
    IN <<"{", "high_risk_patients">> \o arr(res.high_risk_patients)
         \o <<"fever_patients">> \o arr(res.fever_patients)
         \o <<"data_quality_issues">> \o arr(res.data_quality_issues) \o <<"}">>

(* JSON.stringify(results): the text of the body, as a sequence of tokens *)
stringify(res) ==
    LET arr(a) == <<"[">> \o a \o <<"]">>
    IN <<"{", "high_risk_patients">> \o arr(res.high_risk_patients)
         \o <<"fever_patients">> \o arr(res.fever_patients)
         \o <<"data_quality_issues">> \o arr(res.data_quality_issues) \o <<"}">>

Request(op, page, a) ==
    [op |-> op, page |-> page, attempt |-> a,
     body |-> IF op = "submit" THEN stringify(results) ELSE <<>>]
(* a response with what the code read of its body: `read` is the text or the
   parsed value of a submission response, the pagination of a page whose data
   is not an array, "" when nothing was read *)
Response(r, isObject, wait, read) ==
    [rejected |-> r.rejected, status |-> r.status, jsonObject |-> isObject,
     wait |-> wait, read |-> read]
NoResponse ==
    [rejected |-> FALSE, status |-> 0, jsonObject |-> FALSE, wait |-> 0, read |-> ""]

(* the history of the current call after response r, answered with a wait *)
RecordRead(r, isObject, wait, read) ==
    /\ lastResponse' = Response(r, isObject, wait, read)
    /\ waits' = IF wait > 0 THEN Append(waits, wait) ELSE waits
    /\ priorRetryable' =
          (lastResponse = NoResponse
             \/ (priorRetryable /\ ~lastResponse.rejected
                                /\ lastResponse.status \in {429, 500, 503}))
Record(r, isObject, wait) == RecordRead(r, isObject, wait, "")
NewCall ==
    /\ lastResponse' = NoResponse
    /\ waits' = <<>>
    /\ priorRetryable' = TRUE

Served(page, body) == [page |-> page, dataIsArray |-> body.dataIsArray, data |-> body.data]

(* await fetch(url, ...): the request leaves *)
Issue(op, page, a) ==
    /\ reqLog' = Append(reqLog, Request(op, page, a))
    /\ inflight' = inflight \cup {Len(reqLog) + 1}

(* variant: the attempt counter outlives the call *)
CallPageKeepAttempt(page) ==
    /\ attempt' = attempt
    /\ lastError' = NoError
    /\ NewCall
    /\ Issue("page", page, attempt)
    /\ pc' = "fp_await"

(* entry of fetchPatientsPage up to its first await *)
CallPage(page) ==
    /\ attempt' = 0
    /\ lastError' = NoError
    /\ NewCall
    /\ Issue("page", page, 0)
    /\ pc' = "fp_await"

(* the catch block of fetchAllPatients *)
FetchAllCatch(err) ==
    /\ events' = Append(events, ErrorEvent(currentPage, totalPages, allPatients, err))
    /\ outcome' = Threw(err)
    /\ pc' = "fa_threw"

(* await sleep(RATE_LIMIT_DELAY) before page next *)
Pause(next) == [before |-> next, ms |-> RATE_LIMIT_DELAY]

(* variant: the page's success event reports the count before the push *)
AfterPageCountBefore(pageData) ==
    LET all == AddPatients(allPatients, pageData)
        tp == IF currentPage = 1 THEN TotalPagesOf(pageData.pagination) ELSE totalPages
        next == currentPage + 1
        fetched == Event(currentPage, tp, Len(allPatients), "success", "fetched", NoError)
        final == Event(tp, tp, Len(all), "success", "all", NoError)
    IN /\ allPatients' = all
       /\ totalPages' = tp
       /\ currentPage' = next
       /\ IF PageLoopContinues(next, tp)
          THEN /\ events' = Append(events, fetched)
               /\ outcome' = outcome
               /\ pauses' = Append(pauses, Pause(next))
               /\ pc' = "fa_delay"
          ELSE /\ events' = events \o <<fetched, final>>
               /\ outcome' = Returned(all, "")
               /\ pauses' = pauses
               /\ pc' = "fa_returned"

(* variant: totalPages is taken from every page *)
AfterPageAnyTotal(pageData) ==
    LET all == AddPatients(allPatients, pageData)
        tp == TotalPagesOf(pageData.pagination)
        next == currentPage + 1
        fetched == Event(currentPage, tp, Len(all), "success", "fetched", NoError)
        final == Event(tp, tp, Len(all), "success", "all", NoError)
    IN /\ allPatients' = all
       /\ totalPages' = tp
       /\ currentPage' = next
       /\ IF PageLoopContinues(next, tp)
          THEN /\ events' = Append(events, fetched)
               /\ outcome' = outcome
               /\ pauses' = Append(pauses, Pause(next))
               /\ pc' = "fa_delay"
          ELSE /\ events' = events \o <<fetched, final>>
               /\ outcome' = Returned(all, "")
               /\ pauses' = pauses
               /\ pc' = "fa_returned"

(* fetchAllPatients after a page call returned pageData, up to the next await *)
AfterPage(pageData) ==
    LET all == AddPatients(allPatients, pageData)
        tp == IF currentPage = 1 THEN TotalPagesOf(pageData.pagination) ELSE totalPages
        next == currentPage + 1
        fetched == Event(currentPage, tp, Len(all), "success", "fetched", NoError)
        final == Event(tp, tp, Len(all), "success", "all", NoError)
    IN /\ allPatients' = all
       /\ totalPages' = tp
       /\ currentPage' = next
       /\ IF PageLoopContinues(next, tp)
          THEN /\ events' = Append(events, fetched)
               /\ outcome' = outcome
               /\ pauses' = Append(pauses, Pause(next))
               /\ pc' = "fa_delay"
          ELSE /\ events' = events \o <<fetched, final>>
               /\ outcome' = Returned(all, "")
               /\ pauses' = pauses
               /\ pc' = "fa_returned"

----------------------------------------------------------------------------
(* Route handlers: src/app/api/fetch-patients and src/app/api/submit-assessment *)

(* process.env.API_KEY and process.env.API_BASE_URL: unset, empty or set *)
EnvValues == {"undefined", "", "set"}
Envs == [apiKey : EnvValues, baseUrl : EnvValues]
NoEnv == [apiKey |-> "undefined", baseUrl |-> "undefined"]

(* !v of an environment string *)
Not(v) == v \in {"undefined", ""}

(* variant: the configuration counts as missing only when both values are *)
ConfigMissingBoth(e) == Not(e.apiKey) /\ Not(e.baseUrl)

(* !apiKey || !baseUrl *)
ConfigMissing(e) == Not(e.apiKey) \/ Not(e.baseUrl)

(* a property of the posted object: not there, null, or an array of ids *)
Absent == [kind |-> "absent", items |-> <<>>]
Fields ==
    {Absent, [kind |-> "null", items |-> <<>>]}
    \cup {[kind |-> "array", items |-> a] : a \in {<<>>, <<"p2", "p1", "p1">>}}

(* !body.field *)
Falsy(field) == field.kind \in {"absent", "null"}

(* the posted body: text that is not JSON, the JSON value null, or an object *)
NoPostedBody ==
    [json |-> "none", high_risk_patients |-> Absent, fever_patients |-> Absent,
     data_quality_issues |-> Absent]
PostedBodies ==
    {[json |-> j, high_risk_patients |-> Absent, fever_patients |-> Absent,
      data_quality_issues |-> Absent] : j \in {"invalid", "null"}}
    \cup {[json |-> "object", high_risk_patients |-> h, fever_patients |-> f,
           data_quality_issues |-> d] : h \in Fields, f \in Fields, d \in Fields}

NoRequest == [method |-> "none", body |-> NoPostedBody]
Requests ==
    {[method |-> "GET", body |-> NoPostedBody]}
    \cup {[method |-> "POST", body |-> b] : b \in PostedBodies}

(* NextResponse.json(...) of the two handlers *)
HttpResponse(status, error, message, patients, result) ==
    [status |-> status, error |-> error, message |-> message,
     patients |-> patients, count |-> Len(patients), result |-> result]
NoHttpResponse == HttpResponse(0, "", NoError, <<>>, "")
ConfigurationMissing == HttpResponse(500, "API configuration missing", NoError, <<>>, "")
InvalidRequestBody ==
    HttpResponse(400, "Invalid request body. Missing required fields.", NoError,
                 <<>>, "")
FailedTo(error, err) == HttpResponse(500, error, err, <<>>, "")

(* what await request.json() and the property reads of the validation throw *)
BodySyntaxError == [kind |-> "syntax", status |-> 0, detail |-> "not valid JSON"]
NullBodyTypeError ==
    [kind |-> "type", status |-> 0, detail |-> "Cannot read properties of null"]

(* the body as submitAssessment receives it *)
Forwarded(body) ==
    [high_risk_patients |-> body.high_risk_patients.items,
     fever_patients |-> body.fever_patients.items,
     data_quality_issues |-> body.data_quality_issues.items]

----------------------------------------------------------------------------
(* Risk scoring: src/lib/risk-scoring.ts *)

(* Field values are JSON values: undefined (property not there), null, a
   string (its characters in order) or a number.  A number is the decimal
   fraction n / scale, scale a power of ten; NaN is the one value that is
   not a number.  Strings are written over the characters of Alphabet and
   the digits, which leaves out exponents, hexadecimal and "Infinity". *)
NaN == [nan |-> TRUE, n |-> 0, scale |-> 1]
Dec(n, scale) == [nan |-> FALSE, n |-> n, scale |-> scale]

Undefined == [type |-> "undefined", chars |-> <<>>, num |-> NaN]
Null == [type |-> "null", chars |-> <<>>, num |-> NaN]
Str(cs) == [type |-> "string", chars |-> cs, num |-> NaN]
Num(d) == [type |-> "number", chars |-> <<>>, num |-> d]

DigitChars == <<"0", "1", "2", "3", "4", "5", "6", "7", "8", "9">>
Digits == {DigitChars[i] : i \in DOMAIN DigitChars}
DigitValue(c) == (CHOOSE i \in DOMAIN DigitChars : DigitChars[i] = c) - 1

RECURSIVE DigitsValue(_)
DigitsValue(ds) ==
    IF ds = <<>> THEN 0
    ELSE DigitsValue(SubSeq(ds, 1, Len(ds) - 1)) * 10 + DigitValue(ds[Len(ds)])

RECURSIVE Pow10(_)
Pow10(k) == IF k <= 0 THEN 1 ELSE 10 * Pow10(k - 1)

(* String.prototype.trim *)
RECURSIVE trimStart(_)
trimStart(cs) == IF cs # <<>> /\ Head(cs) = " " THEN trimStart(Tail(cs)) ELSE cs
RECURSIVE trimEnd(_)
trimEnd(cs) ==
    IF cs # <<>> /\ cs[Len(cs)] = " " THEN trimEnd(SubSeq(cs, 1, Len(cs) - 1)) ELSE cs
trim(cs) == trimEnd(trimStart(cs))

(* String.prototype.split with a one-character separator *)
RECURSIVE split(_, _)
split(cs, sep) ==
    LET at == {i \in DOMAIN cs : cs[i] = sep}
    IN IF at = {} THEN <<cs>>
       ELSE LET i == CHOOSE k \in at : \A m \in at : k <= m
            IN <<SubSeq(cs, 1, i - 1)>> \o split(SubSeq(cs, i + 1, Len(cs)), sep)

(* Number(string): surrounding white space is dropped, the empty string is
   0, a signed decimal literal is its value, anything else is NaN *)
Number(cs) ==
    LET t == trim(cs)
    IN IF t = <<>> THEN Dec(0, 1)
       ELSE LET u == IF Head(t) \in {"+", "-"} THEN Tail(t) ELSE t
                dots == {i \in DOMAIN u : u[i] = "."}
                digs == {i \in DOMAIN u : u[i] \in Digits}
            IN IF digs = {} \/ Cardinality(dots) > 1 \/ digs \cup dots # DOMAIN u
               THEN NaN
               ELSE LET frac == IF dots = {} THEN 0
                                ELSE Len(u) - (CHOOSE i \in dots : TRUE)
                        mag == DigitsValue(SelectSeq(u, LAMBDA c : c \in Digits))
                    IN Dec(IF Head(t) = "-" THEN 0 - mag ELSE mag, Pow10(frac))

isNaN(x) == x.nan

(* x >= y and x > y of two numbers that are not NaN *)
Ge(x, y) == x.n * y.scale >= y.n * x.scale
Gt(x, y) == x.n * y.scale > y.n * x.scale

(* variant: the two scores add up *)
MaxAsSum(a, b) == a + b

Max(a, b) == IF a >= b THEN a ELSE b

(* the result of a scoring function; scoreTemperature and scoreAge return no
   category, written "" *)
Scored(score, isValid, category) ==
    [score |-> score, isValid |-> isValid, category |-> category]
InvalidBloodPressure == Scored(0, FALSE, "Invalid")

(* variant: the threshold 140 itself is not Stage 2 *)
systolicScoreStrict(systolic) ==
    IF Gt(systolic, Dec(140, 1)) THEN 4
    ELSE IF Ge(systolic, Dec(130, 1)) THEN 3
    ELSE IF Ge(systolic, Dec(120, 1)) THEN 2
    ELSE 1

systolicScore(systolic) ==
    IF Ge(systolic, Dec(140, 1)) THEN 4
    ELSE IF Ge(systolic, Dec(130, 1)) THEN 3
    ELSE IF Ge(systolic, Dec(120, 1)) THEN 2
    ELSE 1

(* variant: the threshold 80 itself is not Stage 1 *)
diastolicScoreStrict(systolic, diastolic) ==
    IF Ge(diastolic, Dec(90, 1)) THEN 4
    ELSE IF Gt(diastolic, Dec(80, 1)) THEN 3
    ELSE IF Ge(systolic, Dec(120, 1)) /\ ~Ge(systolic, Dec(130, 1)) THEN 2
    ELSE IF ~Ge(systolic, Dec(120, 1)) THEN 1
    ELSE 0

diastolicScore(systolic, diastolic) ==
    IF Ge(diastolic, Dec(90, 1)) THEN 4
    ELSE IF Ge(diastolic, Dec(80, 1)) THEN 3
    ELSE IF Ge(systolic, Dec(120, 1)) /\ ~Ge(systolic, Dec(130, 1)) THEN 2
    ELSE IF ~Ge(systolic, Dec(120, 1)) THEN 1
    ELSE 0

categoryOf(finalScore) ==
    IF finalScore = 4 THEN "Stage 2"
    ELSE IF finalScore = 3 THEN "Stage 1"
    ELSE IF finalScore = 2 THEN "Elevated"
    ELSE "Normal"

(* variant: a reading with an empty part is not rejected *)
PartMissingIgnored(str) == FALSE

(* systolicStr === "", diastolicStr === "" *)
PartMissing(str) == str = <<>>

scoreBloodPressure(bp) ==
    IF bp.type \in {"undefined", "null"} \/ bp.chars = <<>> \/ trim(bp.chars) = <<>>
    THEN InvalidBloodPressure
    ELSE LET parts == split(bp.chars, "/")
         IN IF Len(parts) # 2 THEN InvalidBloodPressure
            ELSE LET systolicStr == trim(parts[1])
                     diastolicStr == trim(parts[2])
                     systolic == Number(systolicStr)
                     diastolic == Number(diastolicStr)
                     finalScore == Max(systolicScore(systolic),
                                       diastolicScore(systolic, diastolic))
                 IN IF PartMissing(systolicStr) \/ PartMissing(diastolicStr)
                    THEN InvalidBloodPressure
                    ELSE IF isNaN(systolic) \/ isNaN(diastolic)
                    THEN InvalidBloodPressure
                    ELSE Scored(finalScore, TRUE, categoryOf(finalScore))

(* typeof v === "string" ? Number(v) : v, of a value neither null nor undefined *)
ToNumber(v) == IF v.type = "string" THEN Number(v.chars) ELSE v.num

scoreTemperature(temp) ==
    IF temp.type \in {"null", "undefined"} THEN Scored(0, FALSE, "")
    ELSE LET temperature == ToNumber(temp)
         IN IF isNaN(temperature) THEN Scored(0, FALSE, "")
            ELSE IF Ge(temperature, Dec(1010, 10)) THEN Scored(2, TRUE, "")
            ELSE IF Ge(temperature, Dec(996, 10)) THEN Scored(1, TRUE, "")
            ELSE Scored(0, TRUE, "")

scoreAge(age) ==
    IF age.type \in {"null", "undefined"} THEN Scored(0, FALSE, "")
    ELSE LET ageNum == ToNumber(age)
         IN IF isNaN(ageNum) THEN Scored(0, FALSE, "")
            ELSE IF Gt(ageNum, Dec(65, 1)) THEN Scored(2, TRUE, "")
            ELSE IF Ge(ageNum, Dec(40, 1)) THEN Scored(1, TRUE, "")
            ELSE Scored(1, TRUE, "")

Patient(id, age, bp, temp) ==
    [patient_id |-> id, age |-> age, blood_pressure |-> bp, temperature |-> temp]
NoPatient == Patient("", Undefined, Undefined, Undefined)

RiskScore(bloodPressure, temperature, age) ==
    [bloodPressure |-> bloodPressure, temperature |-> temperature, age |-> age,
     total |-> bloodPressure + temperature + age]

(* riskScore.total >= 4 *)
isHighRisk(total) == total >= 4

(* variant: 99.6 itself is not a fever *)
hasFeverAbove(tempResult, temperature) ==
    /\ tempResult.isValid
    /\ temperature.type \notin {"null", "undefined"}
    /\ Gt(ToNumber(temperature), Dec(996, 10))

(* tempResult.isValid && temperature !== null && temperature !== undefined
   && Number(temperature) >= 99.6 *)
hasFever(tempResult, temperature) ==
    /\ tempResult.isValid
    /\ temperature.type \notin {"null", "undefined"}
    /\ Ge(ToNumber(temperature), Dec(996, 10))

(* !bpResult.isValid || !tempResult.isValid || !ageResult.isValid *)
dataQuality(bpResult, tempResult, ageResult) ==
    ~bpResult.isValid \/ ~tempResult.isValid \/ ~ageResult.isValid

(* variant: the score keeps a count of the assessments made so far *)
assessPatientRiskCounting(p) ==
    LET bpResult == scoreBloodPressure(p.blood_pressure)
        tempResult == scoreTemperature(p.temperature)
        ageResult == scoreAge(p.age)
        riskScore == RiskScore(bpResult.score + Len(assessed), tempResult.score,
                               ageResult.score)
    IN [patient_id |-> p.patient_id, age |-> p.age,
        blood_pressure |-> p.blood_pressure, temperature |-> p.temperature,
        riskScore |-> riskScore,
        isHighRisk |-> isHighRisk(riskScore.total),
        hasFever |-> hasFever(tempResult, p.temperature),
        hasDataQualityIssues |-> dataQuality(bpResult, tempResult, ageResult)]

(* {...patient, riskScore, isHighRisk, hasFever, hasDataQualityIssues} *)
assessPatientRisk(p) ==
    LET bpResult == scoreBloodPressure(p.blood_pressure)
        tempResult == scoreTemperature(p.temperature)
        ageResult == scoreAge(p.age)
        riskScore == RiskScore(bpResult.score, tempResult.score, ageResult.score)
    IN [patient_id |-> p.patient_id, age |-> p.age,
        blood_pressure |-> p.blood_pressure, temperature |-> p.temperature,
        riskScore |-> riskScore,
        isHighRisk |-> isHighRisk(riskScore.total),
        hasFever |-> hasFever(tempResult, p.temperature),
        hasDataQualityIssues |-> dataQuality(bpResult, tempResult, ageResult)]
NotScored == [fn |-> "none", result |-> Scored(0, FALSE, "")]

(* Inputs of the scoring functions.  Free text: every string of at most
   MaxLen characters of Alphabet.  Numerals: a decimal text together with
   the number it denotes, around the thresholds of the scoring rules. *)
Alphabet == {"1", "/", " ", "a", ".", "-"}
Strings == UNION {[1 .. k -> Alphabet] : k \in 0 .. MaxLen}

RECURSIVE Chars(_)
Chars(n) ==
    IF n < 10 THEN <<DigitChars[n + 1]>>
    ELSE Chars(n \div 10) \o <<DigitChars[(n % 10) + 1]>>

Whole(n) == [text |-> Chars(n), value |-> Dec(n, 1)]
Tenths(n, t) == [text |-> Chars(n) \o <<".">> \o Chars(t), value |-> Dec(n * 10 + t, 10)]

SystolicNumerals ==
    {Whole(n) : n \in {119, 120, 129, 130, 135, 139, 140}} \cup {Tenths(129, 5)}
DiastolicNumerals == {Whole(n) : n \in {75, 79, 80, 89, 90, 95}} \cup {Tenths(79, 5)}
TemperatureNumerals ==
    {Whole(n) : n \in {0, 98, 101, 104}}
    \cup {Tenths(n, t) : n \in {99, 100, 101}, t \in {0, 5, 6, 9}}
AgeNumerals == {Whole(n) : n \in {0, 39, 40, 65, 66, 90}} \cup {Tenths(65, 5)}

Reading(s, d) == Str(s.text \o <<"/">> \o d.text)
SpacedReading(s, d) == Str(<<" ">> \o s.text \o <<" ", "/", " ">> \o d.text \o <<" ">>)

Missing == {Undefined, Null}
FreeText == {Str(cs) : cs \in Strings}
BloodPressureInputs ==
    Missing \cup FreeText
    \cup {Reading(s, d) : s \in SystolicNumerals, d \in DiastolicNumerals}
    \cup {SpacedReading(s, d) : s \in SystolicNumerals, d \in DiastolicNumerals}
TemperatureInputs ==
    Missing \cup FreeText
    \cup {Str(m.text) : m \in TemperatureNumerals}
    \cup {Num(m.value) : m \in TemperatureNumerals}
AgeInputs ==
    Missing \cup FreeText
    \cup {Str(m.text) : m \in AgeNumerals} \cup {Num(m.value) : m \in AgeNumerals}

(* patients that differ from an unremarkable one in a single field *)
Unremarkable ==
    Patient("p1", Num(Dec(30, 1)), Reading(Whole(110), Whole(70)), Num(Dec(986, 10)))

(* patients with every combination of a few values of the three fields *)
MixedPatients ==
    {Patient("p1", a, b, t) :
        a \in {Num(Dec(30, 1)), Num(Dec(66, 1)), Str(Chars(65)), Undefined, Str(<<" ">>)},
        b \in {Reading(Whole(110), Whole(70)), Reading(Whole(120), Whole(75)),
               Reading(Whole(135), Whole(85)), Reading(Whole(140), Whole(90)),
               Null, Str(<<"a">>)},
        t \in {Num(Dec(986, 10)), Num(Dec(996, 10)), Str(Chars(101)), Null,
               Str(<<>>), Str(<<"a">>)}}

Patients ==
    {[Unremarkable EXCEPT !.blood_pressure = b] : b \in BloodPressureInputs}
    \cup {[Unremarkable EXCEPT !.temperature = t] : t \in TemperatureInputs}
    \cup {[Unremarkable EXCEPT !.age = a] : a \in AgeInputs}
    \cup MixedPatients

NotCategorized ==
    [done |-> FALSE, high_risk_patients |-> <<>>, fever_patients |-> <<>>,
     data_quality_issues |-> <<>>]

(* the body of the loop `for (const patient of patients)`: three
   independent tests, each pushing patient.patient_id *)
RECURSIVE categorizeFrom(_, _, _)
categorizeFrom(patients, k, results_) ==
    IF k > Len(patients) THEN results_
    ELSE LET pt == patients[k]
             r1 == IF pt.isHighRisk
                   THEN [results_ EXCEPT !.high_risk_patients = Append(@, pt.patient_id)]
                   ELSE results_
             r2 == IF pt.hasFever
                   THEN [r1 EXCEPT !.fever_patients = Append(@, pt.patient_id)]
                   ELSE r1
             r3 == IF pt.hasDataQualityIssues
                   THEN [r2 EXCEPT !.data_quality_issues = Append(@, pt.patient_id)]
                   ELSE r2
         IN categorizeFrom(patients, k + 1, r3)

(* variant: a record listed as high risk is not listed for fever *)
categorizePatientsChained(patients) ==
    LET c == categorizeFrom(patients, 1, [NotCategorized EXCEPT !.done = TRUE])
        InHighRisk(id) == \E n \in DOMAIN c.high_risk_patients :
                             c.high_risk_patients[n] = id
    IN [c EXCEPT !.fever_patients = SelectSeq(@, LAMBDA id : ~InHighRisk(id))]

categorizePatients(patients) ==
    categorizeFrom(patients, 1, [NotCategorized EXCEPT !.done = TRUE])

(* The records fetchedPatients.map(assessPatientRisk) is applied to: one
   record for each combination of the three flags, the identifiers not in
   the order of the list below. *)
Normal == Reading(Whole(110), Whole(70))
Stage2 == Reading(Whole(140), Whole(90))
Pool ==
    {Patient("p5", Num(Dec(30, 1)), Normal, Num(Dec(986, 10))),
     Patient("p2", Num(Dec(30, 1)), Stage2, Num(Dec(986, 10))),
     Patient("p7", Num(Dec(30, 1)), Normal, Num(Dec(996, 10))),
     Patient("p1", Num(Dec(30, 1)), Null, Num(Dec(986, 10))),
     Patient("p8", Num(Dec(30, 1)), Stage2, Str(Chars(101))),
     Patient("p3", Num(Dec(66, 1)), Stage2, Null),
     Patient("p6", Num(Dec(30, 1)), Str(<<"a">>), Str(Chars(101))),
     Patient("p4", Undefined, Stage2, Str(Chars(101)))}

----------------------------------------------------------------------------
(* Concurrent runs of fetchAllPatients: src/lib/api-client.ts *)

NothingParked == [pc |-> "none"]

(* the local variables and the continuation of the run that is executing,
   with the requests it made and the answers it got *)
Locals ==
    [pc |-> pc, currentPage |-> currentPage, totalPages |-> totalPages,
     allPatients |-> allPatients, attempt |-> attempt, lastError |-> lastError,
     outcome |-> outcome, events |-> events, inflight |-> inflight,
     reqLog |-> reqLog, lastResponse |-> lastResponse, waits |-> waits,
     priorRetryable |-> priorRetryable, served |-> served, declared |-> declared,
     faults |-> faults, pauses |-> pauses]

(* a call of fetchAllPatients that has not run yet *)
NotStarted ==
    [pc |-> "fa_start", currentPage |-> 1, totalPages |-> 1, allPatients |-> <<>>,
     attempt |-> 0, lastError |-> NoError, outcome |-> Pending, events |-> <<>>,
     inflight |-> {}, reqLog |-> <<>>, lastResponse |-> NoResponse, waits |-> <<>>,
     priorRetryable |-> TRUE, served |-> <<>>, declared |-> NoPagination,
     faults |-> 0, pauses |-> <<>>]

(* the answers of a server that fails at most MaxFaults times in a run, with
   a 503, and otherwise sends well-formed pages *)
QuietResponses(p) ==
    (IF faults < MaxFaults
     THEN {[rejected |-> FALSE, status |-> 503, body |-> NoBody]}
     ELSE {})
    \cup {[rejected |-> FALSE, status |-> 200,
           body |-> [shape |-> "object", dataIsArray |-> TRUE, data |-> Records(p, n),
                     pagination |-> [present |-> TRUE, hasTotalPages |-> TRUE,
                                     totalPages |-> t]]] :
              n \in 0 .. MaxRecs, t \in 1 .. MaxPages}

----------------------------------------------------------------------------
(* Dashboard: src/app/page.tsx *)

NoMessage == NoError
NoSubmissionResult == "null"

(* new Error(text), and the TypeError of a property read of undefined *)
ErrorOf(text) == [kind |-> "error", status |-> 0, detail |-> text]
UndefinedTypeError ==
    [kind |-> "type", status |-> 0, detail |-> "Cannot read properties of undefined"]
FetchRejected == [kind |-> "type", status |-> 0, detail |-> "Failed to fetch"]

(* an entry of progressLogs; count is the number a message quotes *)
Log(message, count, type) == [message |-> message, count |-> count, type |-> type]

(* variant: the answer is never taken for a failure *)
RefusedNever(answer) == FALSE

(* !response.ok *)
Refused(answer) == ~ResponseOk(answer.status)

(* new Error(errorData.message || fallback) *)
MessageOr(answer, fallback) ==
    IF answer.message # NoError THEN answer.message ELSE ErrorOf(fallback)

(* a submission result without the fields the page reads *)
EmptyObject == "{}"

(* the lists of at most n records of Pool *)
PatientLists(n) == UNION {[1 .. k -> Pool] : k \in 0 .. n}

(* what the page gets from GET /api/fetch-patients; NoHttpResponse stands
   for a fetch that was rejected *)
FetchAnswers ==
    {NoHttpResponse, ConfigurationMissing,
     FailedTo("Failed to fetch patients", HttpError(404, StatusText(404))),
     FailedTo("Failed to fetch patients", NetworkFailure)}
    \cup {HttpResponse(200, "", NoError, ps, "") : ps \in PatientLists(MaxAssessed)}

(* what the page gets from POST /api/submit-assessment *)
SubmitAnswers ==
    {NoHttpResponse, ConfigurationMissing, InvalidRequestBody,
     FailedTo("Failed to submit assessment", SubmitExhaustedError)}
    \cup {HttpResponse(200, "", NoError, <<>>, v) :
              v \in SubmissionResults \cup {EmptyObject}}

----------------------------------------------------------------------------
(* Actions *)

(* nothing of the API client has run yet *)
ClientFresh ==
    /\ currentPage = 1
    /\ totalPages = 1
    /\ allPatients = <<>>
    /\ attempt = 0
    /\ lastError = NoError
    /\ outcome = Pending
    /\ events = <<>>
    /\ inflight = {}
    /\ reqLog = <<>>
    /\ lastResponse = NoResponse
    /\ waits = <<>>
    /\ priorRetryable = TRUE
    /\ served = <<>>
    /\ declared = NoPagination
    /\ faults = 0
    /\ pauses = <<>>

(* no route handler is running *)
NoRoute ==
    /\ rpc = "none"
    /\ env = NoEnv
    /\ request = NoRequest
    /\ httpResponse = NoHttpResponse

(* no scoring function is applied *)
NoScoring ==
    /\ patient = NoPatient
    /\ scored = NotScored

(* no record is assessed or categorized *)
NoAssessment ==
    /\ assessed = <<>>
    /\ cohorts = NotCategorized

(* one task only: no second run of fetchAllPatients *)
OneTask ==
    /\ active = 1
    /\ parked = NothingParked

(* the dashboard is not running *)
NoDashboard ==
    /\ runStatus = "idle"
    /\ progressLogs = <<>>
    /\ errorState = NoMessage
    /\ submissionResult = NoSubmissionResult

(* a direct call of fetchAllPatients or of submitAssessment *)
Init ==
    /\ pc \in {"fa_start", "sa_start"}
    /\ ClientFresh
    /\ results \in (IF pc = "sa_start" THEN SubmitInputs ELSE {NoResults})
    /\ NoRoute
    /\ NoScoring
    /\ NoAssessment
    /\ OneTask
    /\ NoDashboard

(* fetchAllPatients from its entry to the first await fetch *)
FetchAllStart ==
    /\ pc = "fa_start"
    /\ UNCHANGED <<routeVars, scoreVars, uiVars>>
    /\ events' = Append(events, Event(currentPage, 1, 0, "info", "starting", NoError))
    /\ CallPage(currentPage)
    /\ UNCHANGED <<currentPage, totalPages, allPatients, results, outcome, served,
                   declared, faults, pauses>>

(* the awaited fetch of fetchPatientsPage settles, the server answering the
   request for a page with one of answers[page] *)
PageResponseFrom(answers) ==
    /\ pc = "fp_await"
    /\ UNCHANGED <<routeVars, scoreVars, uiVars>>
    /\ \E i \in inflight : \E r \in answers[reqLog[i].page] :
        /\ faults' = IF PageSuccess(r) THEN faults ELSE faults + 1
        /\ served' = IF PageSuccess(r)
                     THEN Append(served, Served(reqLog[i].page, r.body))
                     ELSE served
        /\ declared' = IF PageSuccess(r) /\ reqLog[i].page = 1
                       THEN r.body.pagination
                       ELSE declared
        /\ inflight' = inflight \ {i}
        /\ UNCHANGED <<attempt, results, reqLog>>
        /\ IF ~r.rejected /\ isRetryableError(r.status)
           THEN LET delay == getExponentialBackoff(attempt, RetryBaseDelay(r.status))
                IN /\ Record(r, r.body.shape = "object", delay)
                   /\ pc' = "fp_sleep"
                   /\ UNCHANGED <<currentPage, totalPages, allPatients, lastError,
                                  outcome, events, pauses>>
           ELSE IF PageThrown(r) # NoError
           THEN /\ lastError' = PageThrown(r)
                /\ IF IsLastAttempt(attempt)
                   THEN /\ Record(r, r.body.shape = "object", 0)
                        /\ FetchAllCatch(ThrownAfterLoop(lastError', PageExhaustedError))
                   ELSE /\ Record(r, r.body.shape = "object",
                               getExponentialBackoff(attempt, BASE_DELAY))
                        /\ pc' = "fp_sleep"
                        /\ UNCHANGED <<outcome, events>>
                /\ UNCHANGED <<currentPage, totalPages, allPatients, pauses>>
           ELSE /\ RecordRead(r, r.body.shape = "object", 0, PaginationRead(r.body))
                /\ AfterPage(PageResult(r.body, reqLog[i].page))
                /\ UNCHANGED lastError

PageResponse == PageResponseFrom([p \in 1 .. MaxPages |-> PageResponses(p)])

(* a backoff sleep of fetchPatientsPage ends: attempt++, loop test, next fetch *)
PageBackoffDone ==
    /\ pc = "fp_sleep"
    /\ UNCHANGED <<routeVars, scoreVars, uiVars>>
    /\ attempt' = attempt + 1
    /\ IF RetryLoopContinues(attempt')
       THEN /\ Issue("page", currentPage, attempt')
            /\ pc' = "fp_await"
            /\ UNCHANGED <<outcome, events>>
       ELSE /\ FetchAllCatch(ThrownAfterLoop(lastError, PageExhaustedError))
            /\ UNCHANGED <<inflight, reqLog>>
    /\ UNCHANGED <<currentPage, totalPages, allPatients, lastError, results,
                   lastResponse, waits, priorRetryable,
                   served, declared, faults, pauses>>

(* the inter-page sleep (RATE_LIMIT_DELAY) ends: progress event, next page call *)
InterPageDelayDone ==
    /\ pc = "fa_delay"
    /\ UNCHANGED <<routeVars, scoreVars, uiVars>>
    /\ events' = Append(events, Event(currentPage, totalPages, Len(allPatients),
                                      "info", "fetching", NoError))
    /\ CallPage(currentPage)
    /\ UNCHANGED <<currentPage, totalPages, allPatients, results, outcome, served,
                   declared, faults, pauses>>

(* submitAssessment from its entry to the first await fetch *)
SubmitStart ==
    /\ pc = "sa_start"
    /\ UNCHANGED <<routeVars, scoreVars, uiVars>>
    /\ attempt' = 0
    /\ lastError' = NoError
    /\ NewCall
    /\ Issue("submit", 0, 0)
    /\ pc' = "sa_await"
    /\ UNCHANGED <<currentPage, totalPages, allPatients, results, outcome, events,
                   served, declared, faults, pauses>>

(* the awaited fetch of submitAssessment settles *)
SubmitResponse ==
    /\ pc = "sa_await"
    /\ UNCHANGED <<routeVars, scoreVars, uiVars>>
    /\ \E i \in inflight : \E r \in SubmitResponses :
        /\ faults' = IF SubmitSuccess(r) THEN faults ELSE faults + 1
        /\ inflight' = inflight \ {i}
        /\ UNCHANGED <<currentPage, totalPages, allPatients, attempt, results, events,
                       reqLog, served, declared, pauses>>
        /\ IF ~r.rejected /\ isRetryableError(r.status)
           THEN LET delay == getExponentialBackoff(attempt, RetryBaseDelay(r.status))
                IN /\ Record(r, r.json, delay)
                   /\ pc' = "sa_sleep"
                   /\ UNCHANGED <<lastError, outcome>>
           ELSE IF SubmitThrown(r) # NoError
           THEN /\ lastError' = SubmitThrown(r)
                /\ IF IsLastAttempt(attempt)
                   THEN /\ RecordRead(r, r.json, 0, SubmitRead(r))
                        /\ outcome' = Threw(ThrownAfterLoop(lastError',
                                                            SubmitExhaustedError))
                        /\ pc' = "sa_threw"
                   ELSE /\ RecordRead(r, r.json,
                                      getExponentialBackoff(attempt, BASE_DELAY),
                                      SubmitRead(r))
                        /\ pc' = "sa_sleep"
                        /\ UNCHANGED outcome
           ELSE /\ RecordRead(r, r.json, 0, SubmitRead(r))
                /\ outcome' = Returned(<<>>, r.value)
                /\ pc' = "sa_returned"
                /\ UNCHANGED lastError

(* a backoff sleep of submitAssessment ends *)
SubmitBackoffDone ==
    /\ pc = "sa_sleep"
    /\ UNCHANGED <<routeVars, scoreVars, uiVars>>
    /\ attempt' = attempt + 1
    /\ IF RetryLoopContinues(attempt')
       THEN /\ Issue("submit", 0, attempt')
            /\ pc' = "sa_await"
            /\ UNCHANGED outcome
       ELSE /\ outcome' = Threw(ThrownAfterLoop(lastError, SubmitExhaustedError))
            /\ pc' = "sa_threw"
            /\ UNCHANGED <<inflight, reqLog>>
    /\ UNCHANGED <<currentPage, totalPages, allPatients, lastError, results, events,
                   lastResponse, waits, priorRetryable,
                   served, declared, faults, pauses>>

(* GET of fetch-patients from its entry to await fetchAllPatients *)
GetRoute ==
    /\ rpc = "get_start"
    /\ UNCHANGED <<env, request, scoreVars, uiVars>>
    /\ UNCHANGED <<currentPage, totalPages, allPatients, attempt, lastError, results,
                   outcome, events, inflight, reqLog, lastResponse, waits,
                   priorRetryable, served, declared, faults, pauses>>
    /\ IF ConfigMissing(env)
       THEN /\ httpResponse' = ConfigurationMissing
            /\ rpc' = "done"
            /\ pc' = pc
       ELSE /\ pc' = "fa_start"
            /\ rpc' = "get_await"
            /\ httpResponse' = httpResponse

(* GET of fetch-patients after fetchAllPatients settled *)
GetDone ==
    /\ rpc = "get_await"
    /\ pc \in {"fa_returned", "fa_threw"}
    /\ httpResponse' = IF outcome.kind = "returned"
                       THEN HttpResponse(200, "", NoError, outcome.patients, "")
                       ELSE FailedTo("Failed to fetch patients", outcome.error)
    /\ rpc' = "done"
    /\ UNCHANGED <<clientVars, env, request, scoreVars, uiVars>>

(* POST of submit-assessment from its entry to await submitAssessment *)
PostRoute ==
    /\ rpc = "post_start"
    /\ UNCHANGED <<env, request, scoreVars, uiVars>>
    /\ UNCHANGED <<currentPage, totalPages, allPatients, attempt, lastError,
                   outcome, events, inflight, reqLog, lastResponse, waits,
                   priorRetryable, served, declared, faults, pauses>>
    /\ LET body == request.body
           answer(resp) == /\ httpResponse' = resp
                           /\ rpc' = "done"
                           /\ UNCHANGED <<pc, results>>
       IN IF ConfigMissing(env) THEN answer(ConfigurationMissing)
          ELSE IF body.json = "invalid"
          THEN answer(FailedTo("Failed to submit assessment", BodySyntaxError))
          ELSE IF body.json = "null"
          THEN answer(FailedTo("Failed to submit assessment", NullBodyTypeError))
          ELSE IF \/ Falsy(body.high_risk_patients)
                  \/ Falsy(body.fever_patients)
                  \/ Falsy(body.data_quality_issues)
          THEN answer(InvalidRequestBody)
          ELSE /\ results' = Forwarded(body)
               /\ pc' = "sa_start"
               /\ rpc' = "post_await"
               /\ httpResponse' = httpResponse

(* POST of submit-assessment after submitAssessment settled *)
PostDone ==
    /\ rpc = "post_await"
    /\ pc \in {"sa_returned", "sa_threw"}
    /\ httpResponse' = IF outcome.kind = "returned"
                       THEN HttpResponse(200, "", NoError, <<>>, outcome.result)
                       ELSE FailedTo("Failed to submit assessment", outcome.error)
    /\ rpc' = "done"
    /\ UNCHANGED <<clientVars, env, request, scoreVars, uiVars>>

Next ==
    \/ FetchAllStart
    \/ PageResponse
    \/ PageBackoffDone
    \/ InterPageDelayDone
    \/ SubmitStart
    \/ SubmitResponse
    \/ SubmitBackoffDone

Spec == Init /\ [][Next]_vars

(* one HTTP request to one of the two route handlers *)
InitRoutes ==
    /\ request \in Requests
    /\ rpc = (IF request.method = "GET" THEN "get_start" ELSE "post_start")
    /\ env \in Envs
    /\ httpResponse = NoHttpResponse
    /\ pc = "idle"
    /\ ClientFresh
    /\ results = NoResults
    /\ NoScoring
    /\ NoAssessment
    /\ OneTask
    /\ NoDashboard

NextRoutes ==
    \/ GetRoute
    \/ GetDone
    \/ PostRoute
    \/ PostDone
    \/ FetchAllStart
    \/ PageResponse
    \/ PageBackoffDone
    \/ InterPageDelayDone
    \/ SubmitStart
    \/ SubmitResponse
    \/ SubmitBackoffDone

SpecRoutes == InitRoutes /\ [][NextRoutes]_vars

(* a scoring function is applied to a field of the patient *)
ScoreBloodPressure ==
    /\ scored = NotScored
    /\ scored' = [fn |-> "scoreBloodPressure",
                  result |-> scoreBloodPressure(patient.blood_pressure)]
    /\ UNCHANGED <<patient, clientVars, routeVars, uiVars>>

ScoreTemperature ==
    /\ scored = NotScored
    /\ scored' = [fn |-> "scoreTemperature",
                  result |-> scoreTemperature(patient.temperature)]
    /\ UNCHANGED <<patient, clientVars, routeVars, uiVars>>

ScoreAge ==
    /\ scored = NotScored
    /\ scored' = [fn |-> "scoreAge", result |-> scoreAge(patient.age)]
    /\ UNCHANGED <<patient, clientVars, routeVars, uiVars>>

(* assessPatientRisk(patient) *)
AssessPatientRisk ==
    /\ assessed = <<>>
    /\ assessed' = <<assessPatientRisk(patient)>>
    /\ UNCHANGED <<scoreVars, cohorts, taskVars, dashVars, clientVars, routeVars>>

(* one patient record, not scored yet *)
InitScoring ==
    /\ patient \in Patients
    /\ scored = NotScored
    /\ pc = "idle"
    /\ ClientFresh
    /\ results = NoResults
    /\ NoRoute
    /\ NoAssessment
    /\ OneTask
    /\ NoDashboard

NextScoring ==
    \/ ScoreBloodPressure
    \/ ScoreTemperature
    \/ ScoreAge
    \/ AssessPatientRisk

SpecScoring == InitScoring /\ [][NextScoring]_vars

----------------------------------------------------------------------------
(* Two calls of fetchAllPatients in one event loop.  The variables of the
   client are those of the run that is executing; the other run is suspended
   at an await, its variables kept in `parked`. *)

(* variant: the accumulator is one array shared by the runs *)
SwitchSharedAccumulator ==
    /\ parked' = Locals
    /\ active' = 3 - active
    /\ pc' = parked.pc
    /\ currentPage' = parked.currentPage
    /\ totalPages' = parked.totalPages
    /\ allPatients' = allPatients
    /\ attempt' = parked.attempt
    /\ lastError' = parked.lastError
    /\ outcome' = parked.outcome
    /\ events' = parked.events
    /\ inflight' = parked.inflight
    /\ reqLog' = parked.reqLog
    /\ lastResponse' = parked.lastResponse
    /\ waits' = parked.waits
    /\ priorRetryable' = parked.priorRetryable
    /\ served' = parked.served
    /\ declared' = parked.declared
    /\ faults' = parked.faults
    /\ pauses' = parked.pauses
    /\ UNCHANGED <<results, routeVars, scoreVars, assessVars, dashVars>>

(* the executing run is suspended at its await and the other is resumed:
   each invocation has its own allPatients, currentPage, totalPages,
   attempt and lastError *)
Switch ==
    /\ parked' = Locals
    /\ active' = 3 - active
    /\ pc' = parked.pc
    /\ currentPage' = parked.currentPage
    /\ totalPages' = parked.totalPages
    /\ allPatients' = parked.allPatients
    /\ attempt' = parked.attempt
    /\ lastError' = parked.lastError
    /\ outcome' = parked.outcome
    /\ events' = parked.events
    /\ inflight' = parked.inflight
    /\ reqLog' = parked.reqLog
    /\ lastResponse' = parked.lastResponse
    /\ waits' = parked.waits
    /\ priorRetryable' = parked.priorRetryable
    /\ served' = parked.served
    /\ declared' = parked.declared
    /\ faults' = parked.faults
    /\ pauses' = parked.pauses
    /\ UNCHANGED <<results, routeVars, scoreVars, assessVars, dashVars>>

QuietPageResponse == PageResponseFrom([p \in 1 .. MaxPages |-> QuietResponses(p)])

InitTwoRuns ==
    /\ pc = "fa_start"
    /\ ClientFresh
    /\ results = NoResults
    /\ NoRoute
    /\ NoScoring
    /\ NoAssessment
    /\ active = 1
    /\ parked = NotStarted
    /\ NoDashboard

NextTwoRuns ==
    \/ FetchAllStart
    \/ QuietPageResponse
    \/ PageBackoffDone
    \/ InterPageDelayDone
    \/ Switch

SpecTwoRuns == InitTwoRuns /\ [][NextTwoRuns]_vars

----------------------------------------------------------------------------
(* The dashboard: startAssessment and resetAssessment of src/app/page.tsx.
   httpResponse is the answer the page received last. *)

(* the catch block of startAssessment *)
Caught(logs, err) ==
    /\ errorState' = err
    /\ progressLogs' = Append(logs, Log("Error", 0, "error"))
    /\ runStatus' = "error"

(* startAssessment from the click to await fetch("/api/fetch-patients") *)
StartAssessment ==
    /\ runStatus \in {"idle", "complete", "error"}
    /\ assessed' = <<>>
    /\ cohorts' = NotCategorized
    /\ submissionResult' = NoSubmissionResult
    /\ errorState' = NoMessage
    /\ runStatus' = "fetching"
    /\ progressLogs' = <<Log("Starting healthcare risk assessment...", 0, "info"),
                         Log("Connecting to DemoMed Healthcare API...", 0, "info")>>
    /\ httpResponse' = NoHttpResponse
    /\ UNCHANGED <<clientVars, rpc, env, request, scoreVars, taskVars>>

(* the Reset button *)
ResetAssessment ==
    /\ runStatus \in {"complete", "error"}
    /\ runStatus' = "idle"
    /\ assessed' = <<>>
    /\ progressLogs' = <<>>
    /\ submissionResult' = NoSubmissionResult
    /\ errorState' = NoMessage
    /\ UNCHANGED <<clientVars, routeVars, scoreVars, cohorts, taskVars>>

(* the fetch of the patients settles: the analysis, up to the await of the
   submission *)
FetchAnswered ==
    /\ runStatus = "fetching"
    /\ UNCHANGED <<clientVars, rpc, env, request, scoreVars, taskVars, submissionResult>>
    /\ \E answer \in FetchAnswers :
        /\ httpResponse' = answer
        /\ IF answer = NoHttpResponse
           THEN /\ Caught(progressLogs, FetchRejected)
                /\ UNCHANGED assessVars
           ELSE IF Refused(answer)
           THEN /\ Caught(progressLogs, MessageOr(answer, "Failed to fetch patients"))
                /\ UNCHANGED assessVars
           ELSE LET fetchedPatients == answer.patients
                    patientsWithRisk ==
                        [k \in DOMAIN fetchedPatients |->
                            assessPatientRisk(fetchedPatients[k])]
                    categorized == categorizePatients(patientsWithRisk)
                IN /\ assessed' = patientsWithRisk
                   /\ cohorts' = categorized
                   /\ progressLogs' = progressLogs \o
                        <<Log("Successfully fetched", Len(fetchedPatients), "success"),
                          Log("Analyzing patient risk scores...", 0, "info"),
                          Log("Risk analysis complete", 0, "success"),
                          Log("high-risk patients",
                              Len(categorized.high_risk_patients), "info"),
                          Log("patients with fever",
                              Len(categorized.fever_patients), "info"),
                          Log("data quality issues",
                              Len(categorized.data_quality_issues), "warning"),
                          Log("Submitting assessment results...", 0, "info")>>
                   /\ runStatus' = "submitting"
                   /\ UNCHANGED errorState

(* the submission settles *)
SubmitAnswered ==
    /\ runStatus = "submitting"
    /\ UNCHANGED <<clientVars, rpc, env, request, scoreVars, taskVars, assessVars>>
    /\ \E answer \in SubmitAnswers :
        /\ httpResponse' = answer
        /\ IF answer = NoHttpResponse
           THEN /\ Caught(progressLogs, FetchRejected)
                /\ UNCHANGED submissionResult
           ELSE IF Refused(answer)
           THEN /\ Caught(progressLogs, MessageOr(answer, "Failed to submit assessment"))
                /\ UNCHANGED submissionResult
           ELSE /\ submissionResult' = answer.result
                /\ LET logs == Append(progressLogs,
                                      Log("Assessment submitted successfully!", 0,
                                          "success"))
                   IN IF answer.result = EmptyObject
                      THEN Caught(logs, UndefinedTypeError)
                      ELSE /\ progressLogs' = Append(logs, Log("Score", 0, "success"))
                           /\ runStatus' = "complete"
                           /\ UNCHANGED errorState

InitDashboard ==
    /\ pc = "idle"
    /\ ClientFresh
    /\ results = NoResults
    /\ NoRoute
    /\ NoScoring
    /\ NoAssessment
    /\ OneTask
    /\ NoDashboard

NextDashboard ==
    \/ StartAssessment
    \/ ResetAssessment
    \/ FetchAnswered
    \/ SubmitAnswered

SpecDashboard == InitDashboard /\ [][NextDashboard]_vars

----------------------------------------------------------------------------
(* The analysis step of the dashboard: fetchedPatients.map(assessPatientRisk)
   followed by categorizePatients(patientsWithRisk).  `patient` is the
   element of fetchedPatients the map callback was called with last, as it
   is after the call. *)

(* one call of the map callback *)
AssessNext ==
    /\ ~cohorts.done
    /\ Len(assessed) < MaxAssessed
    /\ \E p \in Pool :
          /\ patient' = p
          /\ assessed' = Append(assessed, assessPatientRisk(p))
    /\ UNCHANGED <<scored, cohorts, taskVars, dashVars, clientVars, routeVars>>

(* categorizePatients(patientsWithRisk) *)
CategorizePatients ==
    /\ ~cohorts.done
    /\ cohorts' = categorizePatients(assessed)
    /\ UNCHANGED <<scoreVars, assessed, taskVars, dashVars, clientVars, routeVars>>

InitAssessment ==
    /\ patient = NoPatient
    /\ scored = NotScored
    /\ pc = "idle"
    /\ ClientFresh
    /\ results = NoResults
    /\ NoRoute
    /\ NoAssessment
    /\ OneTask
    /\ NoDashboard

NextAssessment ==
    \/ AssessNext
    \/ CategorizePatients

SpecAssessment == InitAssessment /\ [][NextAssessment]_vars

----------------------------------------------------------------------------
(* Properties *)

PagesRequested == [i \in 1 .. Len(reqLog) |-> reqLog[i].page]
PagesServed == [k \in 1 .. Len(served) |-> served[k].page]
UpTo(n) == [i \in 1 .. n |-> i]

RequestsOf(op, p) == {i \in DOMAIN reqLog : reqLog[i].op = op /\ reqLog[i].page = p}

(* the requests of the call made last *)
CallRequests ==
    IF reqLog = <<>> THEN {}
    ELSE RequestsOf(reqLog[Len(reqLog)].op, reqLog[Len(reqLog)].page)

(* zero-based index, within its call, of the latest response *)
LastIndex == Cardinality(CallRequests) - Cardinality(inflight) - 1

RetryableStatus(resp) == ~resp.rejected /\ resp.status \in {429, 500, 503}
GoodResponse(resp) == ~resp.rejected /\ resp.status = 200 /\ resp.jsonObject
FatalResponse(resp) ==
    /\ resp # NoResponse
    /\ ~resp.rejected
    /\ \/ resp.status \notin {429, 500, 503} /\ ~(resp.status \in 200 .. 299)
       \/ resp.status \in 200 .. 299 /\ ~resp.jsonObject

CallThrew == pc \in {"fa_threw", "sa_threw"}
CallReturned == pc \in {"fa_delay", "fa_returned", "sa_returned"}

(* the records the server sent as arrays, in the order it sent them *)
RECURSIVE ConcatArrays(_)
ConcatArrays(sv) ==
    IF sv = <<>> THEN <<>>
    ELSE (IF Head(sv).dataIsArray THEN Head(sv).data ELSE <<>>) \o ConcatArrays(Tail(sv))

ErrorEvents == {k \in DOMAIN events : events[k].type = "error"}

(* C1: a call issues at most 5 HTTP requests, whatever the server answers:
   no call ever has a 6th request, and once the 5th request of a call has
   been answered the only step left to the call is to return or to throw. *)
C1_AtMostFiveRequests ==
    /\ [](\A i \in DOMAIN reqLog :
             /\ Cardinality(RequestsOf(reqLog[i].op, reqLog[i].page)) <= 5
             /\ reqLog[i].attempt \in 0 .. 4)
    /\ [][(Cardinality(CallRequests) = 5 /\ pc \in {"fp_sleep", "sa_sleep"})
             => (pc' \in {"fa_threw", "sa_threw"} /\ reqLog' = reqLog)]_vars

C1_Witness ==
    /\ pc = "fa_threw"
    /\ Cardinality(CallRequests) = 5
    /\ lastResponse.rejected
    /\ waits = <<2000, 2000, 4000, 8000>>

(* C2, as claimed: a non-retryable failure status, or a success status whose
   body is not a JSON object, ends the call at once: no backoff wait follows
   it, the call has thrown, and when it answered the first request no other
   request of the call exists. *)
C2_FatalFailsImmediately ==
    FatalResponse(lastResponse) =>
        /\ lastResponse.wait = 0
        /\ CallThrew
        /\ inflight = {}

(* C3: after k retryable statuses in a row (k <= 4) a well-formed 200 makes
   the call return with exactly k+1 requests issued, and the wait caused by
   the i-th of those statuses (i = 0..3) is 1000*2^i ms after a 500 or 503
   and 2000*2^i ms after a 429. *)
C3_BackoffSchedule ==
    (lastResponse # NoResponse /\ priorRetryable) =>
        /\ (RetryableStatus(lastResponse) /\ LastIndex <= 3) =>
              /\ lastResponse.wait =
                    (IF lastResponse.status = 429 THEN 2000 ELSE 1000)
                        * <<1, 2, 4, 8>>[LastIndex + 1]
              /\ Len(waits) = LastIndex + 1
              /\ waits[Len(waits)] = lastResponse.wait
        /\ GoodResponse(lastResponse) =>
              /\ LastIndex \in 0 .. 4
              /\ CallReturned
              /\ Cardinality(CallRequests) = LastIndex + 1
              /\ Len(waits) = LastIndex

C3_Witness ==
    /\ GoodResponse(lastResponse)
    /\ priorRetryable
    /\ waits = <<2000, 4000, 8000>>
    /\ Cardinality(CallRequests) = 4
    /\ pc = "fa_returned"

(* C4, as claimed: when all 5 attempts of a call were answered with a
   retryable status, the error the call throws names the status of the last
   response. *)
C4_ExhaustionCarriesLastStatus ==
    (CallThrew /\ priorRetryable /\ RetryableStatus(lastResponse)
        /\ Cardinality(CallRequests) = 5) =>
        /\ outcome.error.kind = "http"
        /\ outcome.error.status = lastResponse.status

(* C5, as claimed: a request is attempted at most 3 times and the waits
   between the attempts are 1000, 2000, 4000 ms. *)
C5_AtMostThreeAttempts ==
    /\ \A i \in DOMAIN reqLog :
          Cardinality(RequestsOf(reqLog[i].op, reqLog[i].page)) <= 3
    /\ Len(waits) <= 3
    /\ \A j \in DOMAIN waits : waits[j] = <<1000, 2000, 4000>>[j]

(* C6: when page 1 declares totalPages = N >= 1 and no response fails, the
   run requests exactly the pages 1, 2, ..., N, once each and in that order,
   and returns the records of the pages concatenated in page order. *)
C6_AllPagesInOrder ==
    (pc = "fa_returned" /\ faults = 0 /\ declared.present /\ declared.hasTotalPages
        /\ declared.totalPages >= 1) =>
        /\ PagesRequested = UpTo(declared.totalPages)
        /\ PagesServed = UpTo(declared.totalPages)
        /\ outcome.kind = "returned"
        /\ outcome.patients = ConcatArrays(served)

C6_Witness ==
    /\ pc = "fa_returned"
    /\ faults = 0
    /\ declared.present /\ declared.hasTotalPages /\ declared.totalPages = 2
    /\ outcome.patients = <<<<1, 1>>, <<2, 1>>>>

(* C7: a 200 response with a JSON object body whose data is not an array
   never aborts the run: the run throws only after a failed response, the
   page adds no record while the records of every other page are kept, and
   for page 1 the totalPages of the body's pagination drives the loop, or 1
   when the body has no pagination. *)
C7_MalformedEnvelopeTolerated ==
    /\ allPatients = ConcatArrays(served)
    /\ pc = "fa_threw" => ~GoodResponse(lastResponse)
    /\ pc = "fa_returned" => outcome.patients = ConcatArrays(served)
    /\ (served # <<>> /\ ~served[1].dataIsArray) =>
          /\ (declared.present /\ declared.hasTotalPages /\ declared.totalPages # 0)
                => totalPages = declared.totalPages
          /\ ~declared.present => totalPages = 1

C7_Witness ==
    /\ pc = "fa_returned"
    /\ Len(served) = 2
    /\ ~served[1].dataIsArray
    /\ served[1].data # <<>>
    /\ outcome.patients = <<<<2, 1>>>>

(* C8, as claimed: once page 1 has succeeded, totalPages is an integer >= 1:
   the value page 1 declared when that is an integer >= 1, and 1 otherwise. *)
C8_TotalPagesAtLeastOne ==
    served # <<>> =>
        /\ totalPages >= 1
        /\ IF declared.present /\ declared.hasTotalPages /\ declared.totalPages >= 1
           THEN totalPages = declared.totalPages
           ELSE totalPages = 1

(* C9: pages are fetched one request at a time: at most one request is in
   flight, each request after the first either retries the page of the
   request before it with the next attempt number, or is attempt 0 of the
   next page, issued when the page before it has been served. *)
C9_SequentialPages ==
    /\ Cardinality(inflight) <= 1
    /\ inflight \subseteq {Len(reqLog)}
    /\ \A i \in DOMAIN reqLog :
          reqLog[i].op = "page" =>
             IF i = 1
             THEN reqLog[i].page = 1 /\ reqLog[i].attempt = 0
             ELSE \/ /\ reqLog[i].page = reqLog[i - 1].page
                     /\ reqLog[i].attempt = reqLog[i - 1].attempt + 1
                  \/ /\ reqLog[i].page = reqLog[i - 1].page + 1
                     /\ reqLog[i].attempt = 0
                     /\ \E k \in DOMAIN served : served[k].page = reqLog[i - 1].page

C9_Witness ==
    /\ PagesRequested = <<1, 1, 2, 2>>
    /\ inflight = {4}

(* C10: when a page call fails for good on page p, the run emits exactly one
   error notification, as its last event, with page p and the number of
   records of pages 1..p-1, and throws that error; no other run emits an
   error notification, and a run that returns has every requested page served. *)
C10_ErrorNotification ==
    /\ Cardinality(ErrorEvents) <= 1
    /\ ErrorEvents # {} => pc = "fa_threw"
    /\ pc = "fa_threw" =>
          LET e == events[Len(events)]
              p == reqLog[Len(reqLog)].page
          IN /\ ErrorEvents = {Len(events)}
             /\ e.page = p
             /\ PagesServed = UpTo(p - 1)
             /\ e.patientsCount = Len(ConcatArrays(served))
             /\ outcome = Threw(e.error)
             /\ e.error # NoError
    /\ pc = "fa_returned" =>
          /\ outcome.kind = "returned"
          /\ \A i \in DOMAIN reqLog : \E k \in DOMAIN served :
                served[k].page = reqLog[i].page

C10_Witness ==
    /\ pc = "fa_threw"
    /\ reqLog[Len(reqLog)].page = 2
    /\ events[Len(events)].type = "error"
    /\ events[Len(events)].patientsCount = 1


(* C11: every failed attempt of a page call that is retried (a retryable
   status, or a thrown error before the last attempt) reaches the progress
   observer as one informational event, and adds no error event. *)
C11_RetriesReportedAsInfo ==
    [][(pc = "fp_await" /\ pc' = "fp_sleep")
         => /\ Len(events') = Len(events) + 1
            /\ events'[Len(events')].type = "info"
            /\ {k \in DOMAIN events' : events'[k].type = "error"} = ErrorEvents]_vars


(* what the observer is told: the type, page and count of each notification *)
Note(type, page, count) == [type |-> type, page |-> page, count |-> count]
Notes == [k \in DOMAIN events |->
            Note(events[k].type, events[k].page, events[k].patientsCount)]

(* records the server sent as arrays in the first k pages it served *)
CountServed(k) == Len(ConcatArrays(SubSeq(served, 1, k)))

(* for each of the first k pages: a progress notification with the count
   before the page, then a success notification with the count after it *)
RECURSIVE PageNotes(_)
PageNotes(k) ==
    IF k = 0 THEN <<>>
    ELSE PageNotes(k - 1) \o <<Note("info", k, CountServed(k - 1)),
                               Note("success", k, CountServed(k))>>

(* the page whose call has started and has not succeeded yet *)
PageUnderWay ==
    IF reqLog # <<>> /\ reqLog[Len(reqLog)].op = "page"
         /\ reqLog[Len(reqLog)].page > Len(served)
    THEN <<Note("info", reqLog[Len(reqLog)].page, CountServed(Len(served)))>>
    ELSE <<>>

(* C12: in a run of fetchAllPatients the observer gets a progress
   notification before each page is attempted and a success notification
   after each page succeeds, each with the count of records fetched so far;
   a run that returns ends with exactly one more success notification, whose
   patientsCount is the length of the returned list, and nothing after it. *)
C12_ProgressNotifications ==
    LET sofar == PageNotes(Len(served)) \o PageUnderWay
    IN /\ pc \in {"fp_await", "fp_sleep", "fa_delay"} => Notes = sofar
       /\ pc = "fa_threw" => SubSeq(Notes, 1, Len(Notes) - 1) = sofar
       /\ pc = "fa_returned" =>
             /\ Notes = Append(sofar, Note("success", totalPages,
                                           Len(outcome.patients)))
             /\ outcome.patients = ConcatArrays(served)

C12_Witness ==
    /\ pc = "fa_returned"
    /\ faults > 0
    /\ Notes = <<Note("info", 1, 0), Note("success", 1, 1), Note("info", 2, 1),
                 Note("success", 2, 2), Note("success", 2, 2)>>


(* C13: the first request of each page 2..totalPages comes after one
   inter-page sleep of 500 ms, begun when the previous page had succeeded
   and the same whatever backoff waits the run has had; no such sleep comes
   before page 1 nor after the last page. *)
C13_InterPageDelay ==
    /\ \A k \in DOMAIN pauses : pauses[k] = [before |-> k + 1, ms |-> 500]
    /\ \A i \in DOMAIN reqLog :
          (reqLog[i].op = "page" /\ reqLog[i].page >= 2)
             => /\ reqLog[i].page - 1 \in DOMAIN pauses
                /\ reqLog[i].page - 1 <= Len(served)
    /\ Len(pauses) <= Len(served)
    /\ pc = "fa_delay" =>
          /\ Len(pauses) = Len(served)
          /\ RequestsOf("page", pauses[Len(pauses)].before) = {}
    /\ pc \in {"fp_await", "fp_sleep", "fa_threw"} => Len(pauses) = currentPage - 1
    /\ pc = "fa_returned" => Len(pauses) = Len(served) - 1

C13_Witness ==
    /\ pc = "fa_returned"
    /\ waits # <<>>
    /\ pauses = <<[before |-> 2, ms |-> 500]>>
    /\ PagesServed = <<1, 2>>


(* the API key or the base URL is not configured *)
ConfigurationAbsent ==
    env.apiKey \in {"undefined", ""} \/ env.baseUrl \in {"undefined", ""}

(* C14: when the API key or the base URL is absent, the GET and the POST
   handler both answer 500 "API configuration missing", and neither
   fetchAllPatients nor submitAssessment is entered, so that no upstream
   request is issued while the handler runs. *)
C14_ConfigurationError ==
    (rpc # "none" /\ ConfigurationAbsent) =>
        /\ pc = "idle"
        /\ reqLog = <<>> /\ inflight = {} /\ events = <<>>
        /\ rpc \in {"get_start", "post_start", "done"}
        /\ rpc = "done" => httpResponse = ConfigurationMissing

C14_Witness ==
    /\ rpc = "done"
    /\ request.method = "POST"
    /\ request.body.json = "object"
    /\ \A f \in {"high_risk_patients", "fever_patients", "data_quality_issues"} :
          request.body[f].kind = "array"
    /\ env = [apiKey |-> "set", baseUrl |-> "undefined"]
    /\ httpResponse.status = 500

(* a posted JSON body without three cohort sequences *)
LacksCohort(body) ==
    \/ body.json = "null"
    \/ /\ body.json = "object"
       /\ \E f \in {"high_risk_patients", "fever_patients", "data_quality_issues"} :
             body[f].kind # "array"

HasCohorts(body) ==
    /\ body.json = "object"
    /\ \A f \in {"high_risk_patients", "fever_patients", "data_quality_issues"} :
          body[f].kind = "array"

(* C15: with the configuration present, the POST handler answers 400
   without entering submitAssessment whenever the posted body lacks one of
   the three cohort sequences; a body with all three, empty ones included,
   is handed to submitAssessment, and when that call throws the handler
   answers 500. *)
C15_SubmitValidation ==
    (request.method = "POST" /\ ~ConfigurationAbsent) =>
        /\ LacksCohort(request.body) =>
              /\ pc = "idle" /\ reqLog = <<>>
              /\ rpc = "done" => httpResponse.status = 400
        /\ HasCohorts(request.body) =>
              /\ rpc # "post_start" =>
                    (pc # "idle" /\ results = Forwarded(request.body))
              /\ rpc = "done" =>
                    httpResponse.status = (IF pc = "sa_threw" THEN 500 ELSE 200)


(* the blood pressure of the patient is the reading s/d, spaced or not *)
IsReading(s, d) == patient.blood_pressure \in {Reading(s, d), SpacedReading(s, d)}

Below(v, n) == ~Ge(v, Dec(n, 1))

(* the band scores of the scoring rules: systolic <120 -> 1, 120-129 -> 2,
   130-139 -> 3, >=140 -> 4; diastolic >=90 -> 4, 80-89 -> 3, and below 80
   it gives 2 for a systolic in [120,130), 1 for a systolic <120, else 0 *)
SystolicBand(s) ==
    IF Below(s, 120) THEN 1 ELSE IF Below(s, 130) THEN 2
    ELSE IF Below(s, 140) THEN 3 ELSE 4
DiastolicBand(s, d) ==
    IF ~Below(d, 90) THEN 4 ELSE IF ~Below(d, 80) THEN 3
    ELSE IF ~Below(s, 120) /\ Below(s, 130) THEN 2
    ELSE IF Below(s, 120) THEN 1 ELSE 0
Label(score) ==
    CASE score = 4 -> "Stage 2" [] score = 3 -> "Stage 1"
      [] score = 2 -> "Elevated" [] OTHER -> "Normal"

(* C16: for every valid systolic/diastolic pair scoreBloodPressure returns
   isValid true, score = max(systolicBand, diastolicBand) and the category
   4 -> Stage 2, 3 -> Stage 1, 2 -> Elevated, otherwise Normal; 120/75 is
   2 Elevated and 135/95 is 4 Stage 2. *)
C16_BloodPressureScore ==
    scored.fn = "scoreBloodPressure" =>
        /\ \A s \in SystolicNumerals, d \in DiastolicNumerals :
              IsReading(s, d) =>
                 LET score == Max(SystolicBand(s.value), DiastolicBand(s.value, d.value))
                 IN scored.result = Scored(score, TRUE, Label(score))
        /\ IsReading(Whole(120), Whole(75)) => scored.result = Scored(2, TRUE, "Elevated")
        /\ IsReading(Whole(135), Whole(95)) => scored.result = Scored(4, TRUE, "Stage 2")

C16_Witness ==
    /\ scored.fn = "scoreBloodPressure"
    /\ patient.blood_pressure = Reading(Whole(140), Whole(79))
    /\ scored.result = Scored(4, TRUE, "Stage 2")

(* C17: for every valid integer systolic/diastolic pair the result of
   scoreBloodPressure is the one of the documented table: 1 Normal iff
   systolic <120 and diastolic <80; 2 Elevated iff systolic 120-129 and
   diastolic <80; 4 Stage 2 iff systolic >=140 or diastolic >=90; 3 Stage 1
   iff (systolic 130-139 or diastolic 80-89) and not Stage 2. *)
C17_DocumentedTable ==
    scored.fn = "scoreBloodPressure" =>
        \A s \in SystolicNumerals, d \in DiastolicNumerals :
            (IsReading(s, d) /\ s.value.scale = 1 /\ d.value.scale = 1) =>
               LET sys == s.value.n
                   dia == d.value.n
                   stage2 == sys >= 140 \/ dia >= 90
                   r == scored.result
               IN /\ r.isValid
                  /\ r = Scored(1, TRUE, "Normal") <=> (sys < 120 /\ dia < 80)
                  /\ r = Scored(2, TRUE, "Elevated") <=> (sys \in 120 .. 129 /\ dia < 80)
                  /\ r = Scored(4, TRUE, "Stage 2") <=> stage2
                  /\ r = Scored(3, TRUE, "Stage 1") <=>
                        ((sys \in 130 .. 139 \/ dia \in 80 .. 89) /\ ~stage2)

C17_Witness ==
    /\ scored.fn = "scoreBloodPressure"
    /\ patient.blood_pressure = Reading(Whole(119), Whole(80))
    /\ scored.result = Scored(3, TRUE, "Stage 1")

(* a text of white space only, the empty text included *)
Blank(cs) == \A i \in DOMAIN cs : cs[i] = " "

(* a text that denotes a number: an optionally signed decimal numeral,
   possibly surrounded by white space *)
NumericText(cs) ==
    /\ ~Blank(cs)
    /\ LET ink == {i \in DOMAIN cs : cs[i] # " "}
           lo == CHOOSE i \in ink : \A j \in ink : i <= j
           hi == CHOOSE i \in ink : \A j \in ink : j <= i
           first == IF cs[lo] \in {"+", "-"} THEN lo + 1 ELSE lo
       IN /\ \A i \in first .. hi : cs[i] \in Digits \cup {"."}
          /\ \E i \in first .. hi : cs[i] \in Digits
          /\ Cardinality({i \in first .. hi : cs[i] = "."}) <= 1

(* a reading that is absent, blank, not made of two parts, or with a part
   that is empty or not numeric *)
Unreadable(bp) ==
    \/ bp \in Missing
    \/ Blank(bp.chars)
    \/ LET slashes == {i \in DOMAIN bp.chars : bp.chars[i] = "/"}
       IN \/ Cardinality(slashes) # 1
          \/ \E i \in slashes :
                \/ ~NumericText(SubSeq(bp.chars, 1, i - 1))
                \/ ~NumericText(SubSeq(bp.chars, i + 1, Len(bp.chars)))

(* C18: scoreBloodPressure returns score 0, isValid false, category Invalid
   for every reading that is absent, empty or blank, that is not exactly two
   parts around one "/", or that has an empty or non-numeric part, and it
   returns isValid true for every other reading. *)
C18_InvalidReadings ==
    scored.fn = "scoreBloodPressure" =>
        IF Unreadable(patient.blood_pressure)
        THEN scored.result = Scored(0, FALSE, "Invalid")
        ELSE scored.result.isValid

C18_Witness ==
    /\ scored.fn = "scoreBloodPressure"
    /\ patient.blood_pressure = Str(<<"/", "1">>)
    /\ scored.result = Scored(0, FALSE, "Invalid")


(* v lies in lo/10 .. hi/10 *)
Within(v, lo, hi) == Ge(v, Dec(lo, 10)) /\ Ge(Dec(hi, 10), v)

(* C19: scoreTemperature returns score 0, invalid for an absent value and
   for every non-numeric string, the empty and the blank string included;
   for every number and numeric string it returns isValid true, with score
   2 from 101.0 up, 1 from 99.6 to 100.9 and 0 up to 99.5. *)
C19_TemperatureScore ==
    scored.fn = "scoreTemperature" =>
        LET t == patient.temperature
            r == scored.result
        IN /\ t \in Missing => r = Scored(0, FALSE, "")
           /\ t.type = "string" => r.isValid = NumericText(t.chars)
           /\ (t.type = "string" /\ ~NumericText(t.chars)) => r.score = 0
           /\ \A m \in TemperatureNumerals :
                 t \in {Str(m.text), Num(m.value)} =>
                    /\ r.isValid
                    /\ Ge(m.value, Dec(1010, 10)) => r.score = 2
                    /\ Within(m.value, 996, 1009) => r.score = 1
                    /\ Ge(Dec(995, 10), m.value) => r.score = 0

(* C20: scoreAge returns score 0, invalid for an absent value and for every
   non-numeric string, the empty and the blank string included; for every
   number and numeric string it returns isValid true, with score 2 above 65
   and 1 up to 65 (39, 40 and 65 score 1, 66 scores 2). *)
C20_AgeScore ==
    scored.fn = "scoreAge" =>
        LET a == patient.age
            r == scored.result
        IN /\ a \in Missing => r = Scored(0, FALSE, "")
           /\ a.type = "string" => r.isValid = NumericText(a.chars)
           /\ (a.type = "string" /\ ~NumericText(a.chars)) => r.score = 0
           /\ \A m \in AgeNumerals :
                 a \in {Str(m.text), Num(m.value)} =>
                    /\ r.isValid
                    /\ r.score = (IF Gt(m.value, Dec(65, 1)) THEN 2 ELSE 1)
           /\ \A n \in {39, 40, 65} : a = Num(Dec(n, 1)) => r.score = 1
           /\ a = Num(Dec(66, 1)) => r.score = 2


(* a temperature or an age that is absent or does not parse as a number *)
AbsentOrUnparsed(v) == v \in Missing \/ (v.type = "string" /\ ~NumericText(v.chars))

(* C21: for every record the RiskScore of assessPatientRisk has
   total = bloodPressure + temperature + age and total >= 0, a field that
   is invalid (absent or not parsed) contributes 0, and isHighRisk holds
   exactly when total >= 4. *)
C21_TotalAndHighRisk ==
    \A k \in DOMAIN assessed :
        LET a == assessed[k]
            rs == a.riskScore
        IN /\ rs.total = rs.bloodPressure + rs.temperature + rs.age
           /\ rs.total >= 0
           /\ Unreadable(a.blood_pressure) => rs.bloodPressure = 0
           /\ AbsentOrUnparsed(a.temperature) => rs.temperature = 0
           /\ AbsentOrUnparsed(a.age) => rs.age = 0
           /\ a.isHighRisk <=> rs.total >= 4

(* C22: for every record hasDataQualityIssues holds exactly when at least
   one of blood pressure, temperature and age is absent or failed to parse,
   and a malformed field always comes out as a zero score. *)
C22_DataQualityIssues ==
    \A k \in DOMAIN assessed :
        LET a == assessed[k]
        IN /\ a.hasDataQualityIssues <=>
                 \/ Unreadable(a.blood_pressure)
                 \/ AbsentOrUnparsed(a.temperature)
                 \/ AbsentOrUnparsed(a.age)
           /\ Unreadable(a.blood_pressure) => a.riskScore.bloodPressure = 0
           /\ AbsentOrUnparsed(a.temperature) => a.riskScore.temperature = 0
           /\ AbsentOrUnparsed(a.age) => a.riskScore.age = 0


(* the temperature of the record is the numeral m, as a number or as text *)
HasTemperature(a, m) == a.temperature \in {Num(m.value), Str(m.text)}

(* C30: hasFever holds exactly when the temperature is valid and its
   numeric value is >= 99.6, which is exactly when the temperature score of
   the record is >= 1; a record whose temperature is absent or does not
   parse never has hasFever. *)
C30_HasFever ==
    \A k \in DOMAIN assessed :
        LET a == assessed[k]
        IN /\ a.hasFever <=> a.riskScore.temperature >= 1
           /\ AbsentOrUnparsed(a.temperature) => ~a.hasFever
           /\ \A m \in TemperatureNumerals :
                 HasTemperature(a, m) => (a.hasFever <=> Ge(m.value, Dec(996, 10)))

C30_Witness ==
    /\ assessed # <<>>
    /\ assessed[1].temperature = Str(Tenths(99, 6).text)
    /\ assessed[1].hasFever
    /\ assessed[1].riskScore.temperature = 1

(* the identifiers of the assessed records at the indices of I, by index *)
RECURSIVE IdsAt(_)
IdsAt(I) ==
    IF I = {} THEN <<>>
    ELSE LET m == CHOOSE x \in I : \A y \in I : x <= y
         IN <<assessed[m].patient_id>> \o IdsAt(I \ {m})

CohortNames == {"high_risk_patients", "fever_patients", "data_quality_issues"}

(* the cohorts in which categorizePatients lists the only record of a list *)
CohortsOf(p) ==
    LET c == categorizePatients(<<assessPatientRisk(p)>>)
    IN {n \in CohortNames : c[n] = <<p.patient_id>>}

(* C23: after categorizePatients each cohort is the sequence of identifiers
   of the records having the cohort's flag, in input order and once per
   record; for every subset of the three cohorts some record lands in
   exactly the cohorts of the subset. *)
C23_Cohorts ==
    /\ cohorts.done =>
          /\ cohorts.high_risk_patients =
                IdsAt({k \in DOMAIN assessed : assessed[k].isHighRisk})
          /\ cohorts.fever_patients =
                IdsAt({k \in DOMAIN assessed : assessed[k].hasFever})
          /\ cohorts.data_quality_issues =
                IdsAt({k \in DOMAIN assessed : assessed[k].hasDataQualityIssues})
    /\ \A S \in SUBSET CohortNames : \E p \in Pool : CohortsOf(p) = S

C23_Witness ==
    /\ cohorts.done
    /\ Len(assessed) = 3
    /\ assessed[1].patient_id = "p8" /\ assessed[2].patient_id = "p5"
    /\ assessed[3].patient_id = "p6"
    /\ cohorts.high_risk_patients = <<"p8">>
    /\ cohorts.fever_patients = <<"p8", "p6">>
    /\ cohorts.data_quality_issues = <<"p6">>

(* the fields of the input record, as an assessed record carries them *)
Original(a) ==
    Patient(a.patient_id, a.age, a.blood_pressure, a.temperature)

(* C24: two assessments of the same record give identical results whatever
   was assessed between them; a call leaves the earlier results alone, the
   record it was given is still the input record after the call, and its
   fields are carried unchanged into the result. *)
C24_Pure ==
    /\ [](\A i, j \in DOMAIN assessed :
            Original(assessed[i]) = Original(assessed[j])
                => assessed[i] = assessed[j])
    /\ [][Len(assessed') = Len(assessed) + 1 =>
            /\ SubSeq(assessed', 1, Len(assessed)) = assessed
            /\ patient' \in Pool
            /\ Original(assessed'[Len(assessed')]) = patient']_vars

C24_Witness ==
    /\ Len(assessed) = 3
    /\ assessed[1] = assessed[3]
    /\ assessed[1] # assessed[2]
    /\ assessed[1].isHighRisk

(* the identifiers a submitted body lists under `name` *)
ListedUnder(body, name) ==
    LET i == CHOOSE k \in DOMAIN body : body[k] = name
        j == CHOOSE k \in DOMAIN body :
                 k > i /\ body[k] = "]" /\ \A m \in (i + 1) .. (k - 1) : body[m] # "]"
    IN SubSeq(body, i + 2, j - 1)

(* C25: every submission request lists the three identifier sequences as
   they were given; a call that returns returns what the server sent with
   the successful response, and the endpoint answers with that value. *)
C25_SubmissionForwarded ==
    /\ \A i \in DOMAIN reqLog :
          reqLog[i].op = "submit" =>
             \A n \in CohortNames : ListedUnder(reqLog[i].body, n) = results[n]
    /\ pc = "sa_returned" =>
          /\ GoodResponse(lastResponse)
          /\ outcome = Returned(<<>>, lastResponse.read)
    /\ (rpc = "done" /\ pc = "sa_returned") =>
          httpResponse = HttpResponse(200, "", NoError, <<>>, lastResponse.read)

C25_Witness ==
    /\ rpc = "done"
    /\ pc = "sa_returned"
    /\ results.high_risk_patients = <<"p2", "p1", "p1">>
    /\ results.fever_patients = <<"p2", "p1", "p1">>
    /\ results.data_quality_issues = <<>>
    /\ Len(reqLog) = 2
    /\ httpResponse.result = "PASS"

(* the latest response is a failing status that is not retried *)
SubmitRefused ==
    /\ reqLog # <<>> /\ reqLog[Len(reqLog)].op = "submit"
    /\ lastResponse # NoResponse
    /\ ~lastResponse.rejected
    /\ ~isRetryableError(lastResponse.status)
    /\ ~ResponseOk(lastResponse.status)

(* C26: once a submission is answered with a failing status that is not
   retryable, at whatever attempt, submitAssessment has thrown an error
   whose detail is the body of that response. *)
C26_ErrorCarriesBody ==
    SubmitRefused =>
        /\ pc = "sa_threw"
        /\ outcome = Threw(HttpError(lastResponse.status, lastResponse.read))

(* C29: when the fifth response of a page fetch or of a submission is a
   failure, retryable status or thrown error alike, the call has failed
   without a wait after that response. *)
C29_NoWaitAfterLastAttempt ==
    (/\ lastResponse # NoResponse
     /\ LastIndex = MAX_RETRIES - 1
     /\ ~GoodResponse(lastResponse)) =>
        /\ lastResponse.wait = 0
        /\ CallThrew

(* the counts reported after each page a run fetched *)
FetchedCounts(x) ==
    LET fetched == SelectSeq(x.events, LAMBDA e : e.message = "fetched")
    IN [k \in DOMAIN fetched |-> fetched[k].patientsCount]

(* the requests a run made for the page it is at *)
RequestsForCurrentPage(x) ==
    {i \in DOMAIN x.reqLog : x.reqLog[i].page = x.currentPage}

(* the variables of run x are determined by the answers to its own requests *)
OwnState(x) ==
    /\ x.allPatients = ConcatArrays(x.served)
    /\ x.currentPage = Len(x.served) + 1
    /\ x.totalPages = (IF x.served = <<>> THEN 1 ELSE TotalPagesOf(x.declared))
    /\ x.pc \in {"fp_await", "fp_sleep"} =>
          /\ x.attempt = Cardinality(RequestsForCurrentPage(x)) - 1
          /\ x.faults >= x.attempt
    /\ FetchedCounts(x) =
          [k \in DOMAIN x.served |-> Len(ConcatArrays(SubSeq(x.served, 1, k)))]
    /\ x.pc = "fa_returned" => x.outcome = Returned(ConcatArrays(x.served), "")

(* C27: of two interleaved runs of fetchAllPatients each has its own
   accumulator, current page, totalPages and attempt counter: the records
   and the progress events of a run are those of the answers to its own
   requests, whatever the other run did in between. *)
C27_RunsIndependent ==
    /\ OwnState(Locals)
    /\ OwnState(parked)

C27_Witness ==
    /\ pc = "fp_await" /\ currentPage = 2 /\ Len(allPatients) = 1
    /\ parked.pc = "fp_sleep" /\ parked.currentPage = 1 /\ parked.attempt = 0
    /\ parked.allPatients = <<>>
    /\ active = 2

(* C28: a run in status "error" has its error message set and an error
   entry as the last log entry; every failing answer to the fetch or to the
   submission leads there; "submitting" is entered only with a successful
   fetch, and "complete" only from "submitting" with a successful
   submission whose result is stored. *)
C28_FailedRunNeverComplete ==
    /\ [](runStatus = "error" =>
            /\ errorState # NoMessage
            /\ progressLogs # <<>>
            /\ progressLogs[Len(progressLogs)].type = "error")
    /\ [](runStatus = "complete" =>
            /\ errorState = NoMessage
            /\ submissionResult # NoSubmissionResult
            /\ \A k \in DOMAIN progressLogs : progressLogs[k].type # "error")
    /\ [][(runStatus \in {"fetching", "submitting"} /\ httpResponse'.status # 200)
            => runStatus' = "error"]_vars
    /\ [][(runStatus # "submitting" /\ runStatus' = "submitting")
            => (runStatus = "fetching" /\ httpResponse'.status = 200)]_vars
    /\ [][(runStatus # "complete" /\ runStatus' = "complete")
            => /\ runStatus = "submitting"
               /\ httpResponse'.status = 200
               /\ submissionResult' = httpResponse'.result
               /\ cohorts.done]_vars

C28_Witness ==
    /\ runStatus = "error"
    /\ httpResponse = FailedTo("Failed to submit assessment", SubmitExhaustedError)
    /\ errorState = SubmitExhaustedError
    /\ Len(assessed) = 2
    /\ cohorts.high_risk_patients # <<>>

(* C31: scoreBloodPressure gives 0 exactly for the invalid readings and
   1..4 for the valid ones; scoreTemperature and scoreAge give 0..2; so
   the total of an assessed record is in 0..8, its blood pressure score
   being 0 exactly when the reading is invalid. *)
C31_ScoreRanges ==
    /\ scored.fn = "scoreBloodPressure" =>
          /\ scored.result.score = 0 <=> ~scored.result.isValid
          /\ scored.result.isValid => scored.result.score \in 1 .. 4
          /\ scored.result.isValid <=> ~Unreadable(patient.blood_pressure)
    /\ scored.fn \in {"scoreTemperature", "scoreAge"} =>
          scored.result.score \in 0 .. 2
    /\ \A k \in DOMAIN assessed :
          LET a == assessed[k]
              rs == a.riskScore
          IN /\ rs.bloodPressure = 0 <=> Unreadable(a.blood_pressure)
             /\ rs.bloodPressure \in 0 .. 4
             /\ rs.temperature \in 0 .. 2
             /\ rs.age \in 0 .. 2
             /\ rs.total \in 0 .. 8

(* a record at high risk although its blood pressure is invalid *)
C31_Witness ==
    /\ assessed # <<>>
    /\ Unreadable(assessed[1].blood_pressure)
    /\ assessed[1].riskScore = RiskScore(0, 2, 2)
    /\ assessed[1].isHighRisk

(* C32: in any sequence of retryable statuses and thrown errors within one
   call, the wait that follows the failure at attempt index a is
   2000 * 2^a after a 429 and 1000 * 2^a after anything else, and every
   failure before it was followed by a wait of its own; only a thrown error
   at the last index is followed by none. *)
C32_WaitByAttemptIndex ==
    (lastResponse # NoResponse /\ ~GoodResponse(lastResponse)) =>
        LET a == LastIndex
            base == IF ~lastResponse.rejected /\ lastResponse.status = 429
                    THEN 2000 ELSE 1000
        IN /\ a \in 0 .. MAX_RETRIES - 1
           /\ IF a = MAX_RETRIES - 1 /\ ~RetryableStatus(lastResponse)
              THEN lastResponse.wait = 0 /\ Len(waits) = a
              ELSE /\ lastResponse.wait = base * <<1, 2, 4, 8, 16>>[a + 1]
                   /\ Len(waits) = a + 1
                   /\ waits[a + 1] = lastResponse.wait

(* a 429, then a thrown error, then a 503 *)
C32_Witness ==
    /\ waits = <<2000, 2000, 4000>>
    /\ lastResponse.status = 503
    /\ ~priorRetryable
    /\ LastIndex = 2

(* the number of pages page 1 fixed: the totalPages it sent, 1 when it
   sent none or 0 *)
FixedByPageOne ==
    IF declared.present /\ declared.hasTotalPages /\ declared.totalPages # 0
    THEN declared.totalPages
    ELSE 1

(* C33: once page 1 has been served totalPages is the number page 1 fixed
   and no later step changes it, whatever pagination the later pages carry
   or have synthesized for them; the pages a run requests are page 1 and
   the pages 2 .. totalPages, all of them when the run returns. *)
C33_TotalPagesFromPageOne ==
    /\ [](served # <<>> => totalPages = FixedByPageOne)
    /\ [][served # <<>> => totalPages' = totalPages]_vars
    /\ [](\A i \in DOMAIN reqLog :
            reqLog[i].op = "page" =>
               reqLog[i].page = 1 \/ reqLog[i].page \in 2 .. FixedByPageOne)
    /\ [](pc = "fa_returned" =>
            {reqLog[i].page : i \in DOMAIN reqLog} = {1} \cup (2 .. FixedByPageOne))

(* page 2 of 2 came without an array and without pagination *)
C33_Witness ==
    /\ pc = "fa_returned"
    /\ declared.present /\ declared.hasTotalPages /\ declared.totalPages = 2
    /\ Len(served) = 2
    /\ served[2].page = 2 /\ ~served[2].dataIsArray
    /\ lastResponse.read = "undefined"
    /\ totalPages = 2
    /\ PagesRequested = <<1, 2>>

====
